---- MODULE Spec2Model ----
(***************************************************************************)
(* Model of the load-balancer simulation engine (lib/sim/simulator.ts,     *)
(* lib/sim/algorithms.ts, lib/sim/workloads.ts, lib/sim/scenarios.ts).     *)
(*                                                                         *)
(* The root value SimulationState is the variable `state`; stepSimulation  *)
(* is an operator from (state, dtMs) to the successor state, computed      *)
(* phase by phase in the order of the source.  The driver's edits of the   *)
(* state between steps (server health, load balancer up/down, leader) are  *)
(* separate actions.                                                       *)
(*                                                                         *)
(* Number representation.  The source computes on IEEE doubles; the model  *)
(* is on integers:                                                         *)
(*   - slowMultiplier and ewmaAlpha are held in tenths (1.8 -> 18,         *)
(*     0.2 -> 2);                                                          *)
(*   - the arrival carry (expected, pendingRemainder) is computed in       *)
(*     binary64 as the source computes it: a value is <<i, f1, f2, f3>>,   *)
(*     standing for i + f1/2^18 + f2/2^36 + f3/2^54, and every quotient    *)
(*     and sum is rounded to 53 significant bits, ties to even (exact for  *)
(*     values that are 0 or at least 1/4 and below 2^16);                  *)
(*   - processingTimeMs / remainingTimeMs of a request on server s are     *)
(*     held in units of 1/TimeDen(s) ms, which makes computeProcessingTime *)
(*     exact;                                                              *)
(*   - ewmaLatencyMs is held in 1/1000 ms, rounded down; EwmaSpec, which   *)
(*     is about its value, computes the update in binary64.                *)
(***************************************************************************)
EXTENDS Integers, Sequences, FiniteSets, TLC

VARIABLES
    state,      \* SimulationState
    tick,       \* history: what the last operation did (inputs, per-request decisions)
    envOps,     \* history: number of driver edits so far
    timer       \* dt of the timer callback waiting to run, 0 when none waits

vars == <<state, tick, envOps, timer>>

(***************************************************************************)
(* Bounds of the model.                                                    *)
(***************************************************************************)
MaxTime == 300       \* stepping stops when the clock would pass this
MaxEnvOps == 2       \* driver edits per run
MaxLiveEdits == 1    \* driver edits per run of LiveSpec
MaxArrivalTime == 1000   \* the clock bound of ArrivalSpec
MaxPicks == 12       \* selections per run of SelectSpec
MaxCursor == 8       \* largest rrIndex a run of SelectSpec starts from
MaxHistoryTime == 16200   \* the clock bound of HistorySpec
MaxCompletions == 6       \* completions per run of EwmaSpec
MaxScenarioTime == 10000  \* the clock bound of ScenarioSpec
MaxLength == 6            \* candidates of PairSpec
MaxRequestId == 30        \* request ids of PairSpec

Dts == {50, 100}     \* values of dtMs the driver passes

(***************************************************************************)
(* Program constants.                                                      *)
(***************************************************************************)
LOG_LIMIT == 260
METRICS_LIMIT == 160
SAMPLE_LIMIT == 260

Undef == -1              \* an optional numeric field that is undefined
NoId == "undefined"      \* an optional id field that is undefined
Null == "null"           \* leaderLbId === null

Min(S) == CHOOSE x \in S : \A y \in S : x <= y
Max2(a, b) == IF a >= b THEN a ELSE b

RECURSIVE SumSeq(_)
\* the sum of the entries (values.reduce((sum, value) => sum + value, 0)),
\* taken by halves
SumSeq(s) ==
    IF Len(s) = 0 THEN 0
    ELSE IF Len(s) = 1 THEN s[1]
    ELSE SumSeq(SubSeq(s, 1, Len(s) \div 2))
             + SumSeq(SubSeq(s, Len(s) \div 2 + 1, Len(s)))

\* a trim that discards the newest entries
KeepFirst(s, limit) ==
    IF Len(s) > limit THEN SubSeq(s, 1, limit) ELSE s

\* values.splice(0, values.length - limit): keep the last `limit` entries
KeepLast(s, limit) ==
    IF Len(s) > limit THEN SubSeq(s, Len(s) - limit + 1, Len(s)) ELSE s

\* pushLog that writes the entry twice
pushLogTwice(log, entry) == KeepLast(Append(Append(log, entry), entry), LOG_LIMIT)

pushLog(log, entry) == KeepLast(Append(log, entry), LOG_LIMIT)

pushSample(values, value) == KeepLast(Append(values, value), SAMPLE_LIMIT)

(***************************************************************************)
(* workloads.ts                                                            *)
(***************************************************************************)
rateRps(workloadId, timeMs) ==
    IF workloadId = "burst"
    THEN (IF timeMs % 8000 < 2000 THEN 8 + 45 ELSE 8)
    ELSE 20

(***************************************************************************)
(* Lookup helpers (Array.prototype.find / findIndex by id; 0 = not found). *)
(***************************************************************************)
FindById(seq, id) ==
    LET S == {i \in 1..Len(seq) : seq[i].id = id}
    IN IF S = {} THEN 0 ELSE Min(S)

\* electLeader that takes the first load balancer, up or not
electLeaderFirst(loadBalancers) ==
    IF Len(loadBalancers) = 0 THEN 0 ELSE 1

electLeader(loadBalancers) ==
    LET S == {i \in 1..Len(loadBalancers) : loadBalancers[i].isUp}
    IN IF S = {} THEN 0 ELSE Min(S)

\* isServerAvailable that does not look at the server's free slots
isServerAvailableAnyLoad(server, timeMs) ==
    IF server.health = "DOWN" THEN FALSE
    ELSE IF server.circuitBreakerUntilMs > timeMs THEN FALSE
    ELSE TRUE

\* lines 56-62
isServerAvailable(server, timeMs) ==
    IF server.health = "DOWN" THEN FALSE
    ELSE IF server.circuitBreakerUntilMs > timeMs THEN FALSE
    ELSE LET capacityOpen == Len(server.inflight) < server.maxConcurrentRequests
             queueOpen == Len(server.queue) < server.serverQueueSize
         IN capacityOpen \/ queueOpen

\* a refresh that waits until more than the interval has passed
refreshDueLate(lb, timeMs, intervalMs) == timeMs - lb.lastHealthCheckMs > intervalMs

\* line 71, negated: the load balancer's snapshot is due for a refresh
refreshDue(lb, timeMs, intervalMs) == ~(timeMs - lb.lastHealthCheckMs < intervalMs)

\* updateHealthSnapshot that lets a DOWN server recover in any step, due
\* for a refresh or not
updateHealthSnapshotEager(lb, servers, timeMs, intervalMs, recoveryDelayMs) ==
    LET recovered ==
            [i \in 1..Len(servers) |->
                IF /\ servers[i].health = "DOWN"
                   /\ timeMs - servers[i].lastHealthChangeMs >= recoveryDelayMs
                THEN [servers[i] EXCEPT !.health = "UP",
                                        !.lastHealthChangeMs = timeMs]
                ELSE servers[i]]
        snapshot ==
            [id \in {recovered[i].id : i \in 1..Len(recovered)} |->
                LET sv == recovered[FindById(recovered, id)]
                IN sv.health # "DOWN" /\ sv.circuitBreakerUntilMs <= timeMs]
    IN IF timeMs - lb.lastHealthCheckMs < intervalMs
       THEN [lb |-> lb, servers |-> recovered, fired |-> FALSE]
       ELSE [lb |-> [lb EXCEPT !.lastHealthCheckMs = timeMs,
                               !.healthSnapshot = snapshot],
             servers |-> recovered,
             fired |-> TRUE]

\* returns the refreshed load balancer and the (possibly recovered) servers
updateHealthSnapshot(lb, servers, timeMs, intervalMs, recoveryDelayMs) ==
    IF ~refreshDue(lb, timeMs, intervalMs)
    THEN [lb |-> lb, servers |-> servers, fired |-> FALSE]
    ELSE LET recovered ==
                 [i \in 1..Len(servers) |->
                     IF /\ servers[i].health = "DOWN"
                        /\ timeMs - servers[i].lastHealthChangeMs >= recoveryDelayMs
                     THEN [servers[i] EXCEPT !.health = "UP",
                                             !.lastHealthChangeMs = timeMs]
                     ELSE servers[i]]
             snapshot ==
                 [id \in {recovered[i].id : i \in 1..Len(recovered)} |->
                     LET sv == recovered[FindById(recovered, id)]
                     IN sv.health # "DOWN" /\ sv.circuitBreakerUntilMs <= timeMs]
         IN [lb |-> [lb EXCEPT !.lastHealthCheckMs = timeMs,
                               !.healthSnapshot = snapshot],
             servers |-> recovered,
             fired |-> TRUE]

\* denominator of the time unit of requests on this server (see header)
TimeDen(server) ==
    100 * (IF server.maxConcurrentRequests = 0 THEN 1
           ELSE server.maxConcurrentRequests * server.maxConcurrentRequests)

\* baseLatencyMs * multiplier * (1 + alpha * utilization^2), in 1/TimeDen ms
computeProcessingTime(server, alpha) ==
    LET m == server.maxConcurrentRequests
        k == Len(server.inflight)
        multiplier == IF server.health = "SLOW" THEN server.slowMultiplier ELSE 10
    IN IF m = 0
       THEN server.baseLatencyMs * multiplier * (10 + alpha)
       ELSE server.baseLatencyMs * multiplier * (10 * m * m + alpha * k * k)

(***************************************************************************)
(* algorithms.ts                                                           *)
(***************************************************************************)
\* servers.filter((server) => availableIds.includes(server.id))
RECURSIVE withAvailableServers(_, _)
withAvailableServers(servers, ids) ==
    IF servers = <<>> THEN <<>>
    ELSE (IF \E j \in 1..Len(ids) : ids[j] = Head(servers).id
          THEN <<Head(servers)>> ELSE <<>>)
             \o withAvailableServers(Tail(servers), ids)

\* pickDeterministicPair whose second index starts from the first one
pickDeterministicPairNear(length, requestId) ==
    IF length <= 1 THEN <<0, 0>>
    ELSE LET first == requestId % length
             second == (first + ((requestId * 7) % (length - 1))) % length
         IN <<first, second>>

\* zero-based indices, as in the source
pickDeterministicPair(length, requestId) ==
    IF length <= 1 THEN <<0, 0>>
    ELSE LET first == requestId % length
             second == (first + 1 + ((requestId * 7) % (length - 1))) % length
         IN <<first, second>>

\* let chosen = candidates[0];
\* for (server of candidates) if (key(server) < key(chosen)) chosen = server
\* with key = inflight.length (least connections) or ewmaLatencyMs (ewma)
ScanKey(key, server) ==
    IF key = "inflight" THEN Len(server.inflight) ELSE server.ewmaLatencyMs

\* the scan that lets a later candidate with an equal key replace the chosen
RECURSIVE ScanLowestLast(_, _, _, _)
ScanLowestLast(candidates, key, i, chosen) ==
    IF i > Len(candidates) THEN chosen
    ELSE ScanLowestLast(candidates, key, i + 1,
                        IF ScanKey(key, candidates[i]) <= ScanKey(key, chosen)
                        THEN candidates[i] ELSE chosen)

RECURSIVE ScanLowest(_, _, _, _)
ScanLowest(candidates, key, i, chosen) ==
    IF i > Len(candidates) THEN chosen
    ELSE ScanLowest(candidates, key, i + 1,
                    IF ScanKey(key, candidates[i]) < ScanKey(key, chosen)
                    THEN candidates[i] ELSE chosen)

\* the cumulative-weight scan of weighted round robin
RECURSIVE ScanWeights(_, _, _, _)
ScanWeights(candidates, slot, i, cursor) ==
    IF i > Len(candidates) THEN candidates[1]
    ELSE LET next == cursor + Max2(1, candidates[i].weight)
         IN IF slot < next THEN candidates[i]
            ELSE ScanWeights(candidates, slot, i + 1, next)

\* a selection of the first server where there is none to select
NoSelectionFirst == [serverId |-> "srv-1", rrIndex |-> Undef, reason |-> "no available servers"]

NoSelection == [serverId |-> NoId, rrIndex |-> Undef, reason |-> "no available servers"]

\* round robin whose cursor never moves
selectRoundRobinStuck(servers, availableIds, rrIndex, requestId) ==
    IF Len(availableIds) = 0 THEN NoSelection
    ELSE [serverId |-> availableIds[(rrIndex % Len(availableIds)) + 1],
          rrIndex |-> rrIndex, reason |-> "round robin"]

selectRoundRobin(servers, availableIds, rrIndex, requestId) ==
    IF Len(availableIds) = 0 THEN NoSelection
    ELSE LET index == rrIndex % Len(availableIds)
         IN [serverId |-> availableIds[index + 1],
             rrIndex |-> rrIndex + 1,
             reason |-> "round robin"]

selectLeastConnections(servers, availableIds, rrIndex, requestId) ==
    LET candidates == withAvailableServers(servers, availableIds)
    IN IF Len(candidates) = 0 THEN NoSelection
       ELSE LET chosen == ScanLowest(candidates, "inflight", 1, candidates[1])
            IN [serverId |-> chosen.id, rrIndex |-> Undef,
                reason |-> "least connections"]

\* weighted round robin that gives every candidate one slot
selectWeightedRoundRobinPlain(servers, availableIds, rrIndex, requestId) ==
    LET candidates == withAvailableServers(servers, availableIds)
    IN IF Len(candidates) = 0 THEN NoSelection
       ELSE [serverId |-> candidates[(rrIndex % Len(candidates)) + 1].id,
             rrIndex |-> rrIndex + 1, reason |-> "weighted round robin"]

selectWeightedRoundRobin(servers, availableIds, rrIndex, requestId) ==
    LET candidates == withAvailableServers(servers, availableIds)
    IN IF Len(candidates) = 0 THEN NoSelection
       ELSE LET totalWeight ==
                    SumSeq([i \in 1..Len(candidates) |-> Max2(1, candidates[i].weight)])
                slot == rrIndex % totalWeight
                chosen == ScanWeights(candidates, slot, 1, 0)
            IN [serverId |-> chosen.id, rrIndex |-> rrIndex + 1,
                reason |-> "weighted round robin"]

selectEwma(servers, availableIds, rrIndex, requestId) ==
    LET candidates == withAvailableServers(servers, availableIds)
    IN IF Len(candidates) = 0 THEN NoSelection
       ELSE LET chosen == ScanLowest(candidates, "ewma", 1, candidates[1])
            IN [serverId |-> chosen.id, rrIndex |-> Undef, reason |-> "ewma"]

\* power of two choices that gives a tie to the second candidate
selectP2cSecond(servers, availableIds, rrIndex, requestId) ==
    LET candidates == withAvailableServers(servers, availableIds)
    IN IF Len(candidates) = 0 THEN NoSelection
       ELSE LET pair == pickDeterministicPair(Len(candidates), requestId)
                first == candidates[pair[1] + 1]
                second == IF pair[2] + 1 <= Len(candidates)
                          THEN candidates[pair[2] + 1] ELSE first
                firstLoad == Len(first.inflight) + Len(first.queue)
                secondLoad == Len(second.inflight) + Len(second.queue)
                chosen == IF firstLoad < secondLoad THEN first ELSE second
            IN [serverId |-> chosen.id, rrIndex |-> Undef, reason |-> "p2c"]

selectP2c(servers, availableIds, rrIndex, requestId) ==
    LET candidates == withAvailableServers(servers, availableIds)
    IN IF Len(candidates) = 0 THEN NoSelection
       ELSE LET pair == pickDeterministicPair(Len(candidates), requestId)
                first == candidates[pair[1] + 1]
                second == IF pair[2] + 1 <= Len(candidates)
                          THEN candidates[pair[2] + 1] ELSE first
                firstLoad == Len(first.inflight) + Len(first.queue)
                secondLoad == Len(second.inflight) + Len(second.queue)
                chosen == IF firstLoad <= secondLoad THEN first ELSE second
            IN [serverId |-> chosen.id, rrIndex |-> Undef, reason |-> "p2c"]

AlgorithmIds ==
    {"round-robin", "least-connections", "weighted-round-robin", "ewma", "p2c"}

\* algorithms.find((algo) => algo.id === id) ?? algorithms[0]
getAlgorithm(id) == IF id \in AlgorithmIds THEN id ELSE "round-robin"

select(algorithm, servers, availableIds, rrIndex, requestId) ==
    CASE algorithm = "round-robin" ->
             selectRoundRobin(servers, availableIds, rrIndex, requestId)
      [] algorithm = "least-connections" ->
             selectLeastConnections(servers, availableIds, rrIndex, requestId)
      [] algorithm = "weighted-round-robin" ->
             selectWeightedRoundRobin(servers, availableIds, rrIndex, requestId)
      [] algorithm = "ewma" ->
             selectEwma(servers, availableIds, rrIndex, requestId)
      [] OTHER ->
             selectP2c(servers, availableIds, rrIndex, requestId)

(***************************************************************************)
(* simulator.ts : stepSimulation, in the order of the source.              *)
(* A working value w = [st |-> state being built, tr |-> history of the    *)
(* step] is threaded through the phases.                                   *)
(***************************************************************************)
Coalesce(a, b) == IF a = Undef THEN b ELSE a

NewRequest(requestId, timeMs) ==
    [id |-> requestId,
     arrivalTimeMs |-> timeMs,
     lbQueueEnterMs |-> timeMs,
     lbQueueExitMs |-> Undef,
     lbQueueWaitMs |-> Undef,
     serverQueueEnterMs |-> Undef,
     serverQueueExitMs |-> Undef,
     serverQueueWaitMs |-> Undef,
     startProcessingMs |-> Undef,
     processingTimeMs |-> Undef,
     remainingTimeMs |-> Undef,
     serverId |-> NoId,
     lbId |-> NoId,
     status |-> "arrived"]

\* the message template of a log entry: its wording, the reason or decision
\* text interpolated into it, and (for completions) the rounded latency
Message(verb, reason, ms) == [verb |-> verb, reason |-> reason, ms |-> ms]

LogEntry(id, timeMs, status, message, lbId, serverId) ==
    [id |-> id, timeMs |-> timeMs, status |-> status, message |-> message,
     lbId |-> lbId, serverId |-> serverId]

EmptyTrace(op, dtMs) ==
    [op |-> op, dtMs |-> dtMs, leader |-> NoId, maxPerTick |-> 0,
     routedThisTick |-> 0, refreshed |-> {}, recovered |-> {},
     admissions |-> <<>>, drains |-> <<>>, promotions |-> <<>>,
     completions |-> <<>>, ended |-> <<>>]

\* lines 108-123: copy, advance the clock, reset every LB's activeConnections
beginStep(prev, dtMs) ==
    [prev EXCEPT
        !.timeMs = prev.timeMs + dtMs,
        !.loadBalancers =
            [i \in 1..Len(prev.loadBalancers) |->
                [prev.loadBalancers[i] EXCEPT !.activeConnections = 0]]]

\* binary64 values below 2^16 that are multiples of 2^-54, in limbs of 18 bits
Limb == 262144

RECURSIVE Pow2(_)
Pow2(k) == IF k = 0 THEN 1 ELSE 2 * Pow2(k - 1)

RECURSIVE Log2(_)
\* floor(log2(i)) for i >= 1
Log2(i) == IF i <= 1 THEN 0 ELSE 1 + Log2(i \div 2)

\* the number of bits of the last limb that lie below the 53 significant
\* bits of the value <<i, f1, f2, f3>>
BitsBelow(x) ==
    IF x[1] >= 1 THEN Log2(x[1]) + 2
    ELSE IF x[2] >= Limb \div 2 THEN 1
    ELSE 0

\* x with one unit added at bit k of the last limb, carries propagated
Bumped(x, k) ==
    LET g3 == x[4] + Pow2(k)
        g2 == x[3] + (g3 \div Limb)
        g1 == x[2] + (g2 \div Limb)
    IN << x[1] + (g1 \div Limb), g1 % Limb, g2 % Limb, g3 % Limb >>

\* round to nearest, ties to even: x is the value truncated to 54 fraction
\* bits and restNum / restDen (in [0, 1)) is what was cut off, in units of
\* 2^-54
RoundToDouble(x, restNum, restDen) ==
    LET k == BitsBelow(x)
        low == x[4] % Pow2(k)
        kept == << x[1], x[2], x[3], x[4] - low >>
        odd == ((x[4] \div Pow2(k)) % 2) = 1
        up == IF k = 0
              THEN \/ 2 * restNum > restDen
                   \/ (2 * restNum = restDen /\ odd)
              ELSE \/ 2 * low > Pow2(k)
                   \/ (2 * low = Pow2(k) /\ restNum > 0)
                   \/ (2 * low = Pow2(k) /\ restNum = 0 /\ odd)
    IN IF up THEN Bumped(kept, k) ELSE kept

\* n / d in binary64, for integers n >= 0 and 0 < d < 2^13
FloatQuotient(n, d) ==
    LET r0 == n % d
        r1 == (r0 * Limb) % d
        r2 == (r1 * Limb) % d
        r3 == (r2 * Limb) % d
    IN RoundToDouble(<< n \div d, (r0 * Limb) \div d, (r1 * Limb) \div d,
                        (r2 * Limb) \div d >>, r3, d)

\* x + y in binary64
FloatSum(x, y) ==
    LET g3 == x[4] + y[4]
        g2 == x[3] + y[3] + (g3 \div Limb)
        g1 == x[2] + y[2] + (g2 \div Limb)
    IN RoundToDouble(<< x[1] + y[1] + (g1 \div Limb), g1 % Limb, g2 % Limb,
                        g3 % Limb >>, 0, 1)

RECURSIVE Carried(_, _, _)
\* the limbs raw[1..j] with the carries (or borrows) taken from limb j up
Carried(raw, j, carry) ==
    IF j = 1 THEN << raw[1] + carry >>
    ELSE Append(Carried(raw, j - 1, (raw[j] + carry) \div Limb), (raw[j] + carry) % Limb)

RECURSIVE Divided(_, _, _, _)
\* long division of the limbs x[j..] by d, rem being what the limbs before
\* left: the limbs of the quotient, followed by the last remainder
Divided(x, d, j, rem) ==
    IF j > Len(x) THEN << rem >>
    ELSE << (rem * Limb + x[j]) \div d >> \o Divided(x, d, j + 1, (rem * Limb + x[j]) % d)

\* what lies below 54 fraction bits, as a rest for RoundToDouble: 0, below
\* a half, a half, or above a half (in quarters)
RestCode(f4, f5, f6, rem) ==
    IF f4 = 0 /\ f5 = 0 /\ f6 = 0 /\ rem = 0 THEN 0
    ELSE IF f4 < Limb \div 2 THEN 1
    ELSE IF f4 = Limb \div 2 /\ f5 = 0 /\ f6 = 0 /\ rem = 0 THEN 2
    ELSE 3

\* c * 0.2 * x in binary64 for c = 1 (the double 0.2) and c = 4 (the double
\* 1 - 0.2): the double 0.2 is (1 + 2^-54) / 5, so the exact product is
\* c * (x + x / 2^54) / 5, here on seven limbs before it is rounded
FloatTimesFifths(c, x) ==
    LET q == Divided(Carried(<< c * x[1], c * x[2], c * x[3], c * (x[4] + x[1]),
                                c * x[2], c * x[3], c * x[4] >>, 7, 0),
                     5, 1, 0)
    IN RoundToDouble(<< q[1], q[2], q[3], q[4] >>, RestCode(q[5], q[6], q[7], q[8]), 4)

\* an update that leaves the average as it was
ewmaKept(sample, old) == old

\* lines 375-377, for ewmaAlpha 0.2: alpha * latencyMs + (1 - alpha) * old
\* in binary64
ewmaUpdate(sample, old) ==
    FloatSum(FloatTimesFifths(1, << sample, 0, 0, 0 >>), FloatTimesFifths(4, old))

\* line 127: expected = (arrivalRate * dtMs) / 1000
expectedArrivals(st, dtMs) ==
    FloatQuotient(rateRps(st.workloadId, st.timeMs) * dtMs, 1000)

\* line 128: arrivals = Math.floor(state.pendingRemainder + expected)
arrivalCount(st, dtMs) ==
    FloatSum(st.pendingRemainder, expectedArrivals(st, dtMs))[1]

\* line 129: pendingRemainder + expected - arrivals; the difference of a
\* value and its integer part is exact
carriedRemainder(st, dtMs) ==
    [FloatSum(st.pendingRemainder, expectedArrivals(st, dtMs)) EXCEPT ![1] = 0]

\* ensureLeader that elects anew in every step
ensureLeaderReelect(st) ==
    LET replacement == electLeader(st.loadBalancers)
    IN [leader |-> replacement,
        leaderLbId |-> IF replacement = 0 THEN Null
                       ELSE st.loadBalancers[replacement].id]

\* ensureLeader that hands the step the first load balancer that is up,
\* whatever leaderLbId names
ensureLeaderFirstUp(st) ==
    LET current == FindById(st.loadBalancers, st.leaderLbId)
        replacement == electLeader(st.loadBalancers)
    IN IF current # 0 /\ st.loadBalancers[current].isUp
       THEN [leader |-> replacement, leaderLbId |-> st.leaderLbId]
       ELSE [leader |-> replacement,
             leaderLbId |-> IF replacement = 0 THEN Null
                            ELSE st.loadBalancers[replacement].id]

\* lines 131-137: index of the leader (0 = none) and the new leaderLbId
ensureLeader(st) ==
    LET current == FindById(st.loadBalancers, st.leaderLbId)
    IN IF current # 0 /\ st.loadBalancers[current].isUp
       THEN [leader |-> current, leaderLbId |-> st.leaderLbId]
       ELSE LET replacement == electLeader(st.loadBalancers)
            IN [leader |-> replacement,
                leaderLbId |-> IF replacement = 0 THEN Null
                               ELSE st.loadBalancers[replacement].id]

\* lines 141-149: refresh every load balancer in list order
RECURSIVE refreshAll(_, _)
refreshAll(w, i) ==
    IF i > Len(w.st.loadBalancers) THEN w
    ELSE LET r == updateHealthSnapshot(w.st.loadBalancers[i], w.st.servers,
                                       w.st.timeMs, w.st.healthCheckIntervalMs,
                                       w.st.recoveryDelayMs)
             newlyUp == {w.st.servers[j].id : j \in
                            {k \in 1..Len(w.st.servers) :
                                w.st.servers[k].health # r.servers[k].health}}
         IN refreshAll(
                [st |-> [w.st EXCEPT !.loadBalancers[i] = r.lb,
                                     !.servers = r.servers],
                 tr |-> [w.tr EXCEPT
                            !.refreshed = IF r.fired THEN @ \cup {r.lb.id} ELSE @,
                            !.recovered = @ \cup newlyUp]],
                i + 1)

\* a push that puts the request at the head of the queue
enqueueFront(queue, req) == <<req>> \o queue

\* line 190: leader.queue.push(req)
enqueue(queue, req) == Append(queue, req)

\* admissionOpen that lets the queue grow one past its capacity
admissionOpenOffByOne(lb) == Len(lb.queue) <= lb.queueSize

\* line 174, negated: the leader's queue has room for the arrival
admissionOpen(lb) == Len(lb.queue) < lb.queueSize

\* an arrival that takes no id
consumeIdNever(st) == st

\* an arrival that takes two ids
consumeIdTwice(st) == [st EXCEPT !.nextRequestId = @ + 2]

\* line 152: state.nextRequestId++
consumeId(st) == [st EXCEPT !.nextRequestId = @ + 1]

\* lines 151-191: one arrival
admitOne(w, leader) ==
    LET st == w.st
        requestId == st.nextRequestId
        now == st.timeMs
        st1 == consumeId(st)
    IN IF leader = 0 \/ ~st.loadBalancers[leader].isUp
       THEN [st |-> [st1 EXCEPT
                        !.totals.failed = @ + 1,
                        !.log = pushLog(@, LogEntry(requestId, now, "failed",
                                    Message("failed", "load balancer unavailable", Undef),
                                    IF leader = 0 THEN NoId
                                    ELSE st.loadBalancers[leader].id, NoId))],
             tr |-> [w.tr EXCEPT !.admissions = Append(@,
                        [id |-> requestId, lbId |-> NoId, queueLength |-> 0,
                         queueSize |-> 0, outcome |-> "failed",
                         reason |-> "load balancer unavailable"])]]
       ELSE LET lb == st.loadBalancers[leader]
            IN IF ~admissionOpen(lb)
               THEN [st |-> [st1 EXCEPT
                                !.loadBalancers[leader].droppedRequests = @ + 1,
                                !.totals.droppedLb = @ + 1,
                                !.log = pushLog(@, LogEntry(requestId, now, "failed",
                                            Message("rejected", "lb queue full (503)", Undef),
                                            lb.id, NoId))],
                     tr |-> [w.tr EXCEPT !.admissions = Append(@,
                                [id |-> requestId, lbId |-> lb.id,
                                 queueLength |-> Len(lb.queue),
                                 queueSize |-> lb.queueSize, outcome |-> "failed",
                                 reason |-> "lb queue full (503)"])]]
               ELSE [st |-> [st1 EXCEPT
                                !.loadBalancers[leader].queue =
                                    enqueue(@, [NewRequest(requestId, now)
                                                   EXCEPT !.status = "lb-queued"])],
                     tr |-> [w.tr EXCEPT !.admissions = Append(@,
                                [id |-> requestId, lbId |-> lb.id,
                                 queueLength |-> Len(lb.queue),
                                 queueSize |-> lb.queueSize, outcome |-> "lb-queued",
                                 reason |-> ""])]]

\* an admission loop that skips the arrivals when there is no leader
RECURSIVE admitAllLed(_, _, _)
admitAllLed(w, leader, arrivals) ==
    IF leader = 0 \/ Len(w.tr.admissions) >= arrivals THEN w
    ELSE admitAllLed(admitOne(w, leader), leader, arrivals)

\* lines 151-191: for (let i = 0; i < arrivals; i += 1); i is the number of
\* arrivals handled so far, each of which left one admission record
RECURSIVE admitAll(_, _, _)
admitAll(w, leader, arrivals) ==
    IF Len(w.tr.admissions) >= arrivals THEN w
    ELSE admitAll(admitOne(w, leader), leader, arrivals)

\* a snapshot that calls every server available
snapshotSaysYes(lb, id) == TRUE

\* leader.healthSnapshot[server.id] (a missing key is falsy)
snapshotSays(lb, id) == id \in DOMAIN lb.healthSnapshot /\ lb.healthSnapshot[id]

\* availableIds that ignores the leader's health snapshot
RECURSIVE availableIdsNoSnapshotFrom(_, _, _)
availableIdsNoSnapshotFrom(st, leader, i) ==
    IF i > Len(st.servers) THEN <<>>
    ELSE (IF isServerAvailable(st.servers[i], st.timeMs)
          THEN <<st.servers[i].id>> ELSE <<>>)
             \o availableIdsNoSnapshotFrom(st, leader, i + 1)

availableIdsNoSnapshot(st, leader) == availableIdsNoSnapshotFrom(st, leader, 1)

\* lines 212-217: ids of the servers the leader may route to, in list order
RECURSIVE availableIdsFrom(_, _, _)
availableIdsFrom(st, leader, i) ==
    IF i > Len(st.servers) THEN <<>>
    ELSE (IF /\ snapshotSays(st.loadBalancers[leader], st.servers[i].id)
             /\ isServerAvailable(st.servers[i], st.timeMs)
          THEN <<st.servers[i].id>> ELSE <<>>)
             \o availableIdsFrom(st, leader, i + 1)

availableIds(st, leader) == availableIdsFrom(st, leader, 1)

\* what the history keeps of one drained request and of the server chosen
\* for it, as they were when the request was dispatched
RECURSIVE ServerView(_, _, _)
ServerView(lb, servers, i) ==
    IF i > Len(servers) THEN <<>>
    ELSE << [id |-> servers[i].id, health |-> servers[i].health,
             snapshot |-> snapshotSays(lb, servers[i].id),
             circuitBreakerUntilMs |-> servers[i].circuitBreakerUntilMs,
             open |-> \/ Len(servers[i].inflight) < servers[i].maxConcurrentRequests
                      \/ Len(servers[i].queue) < servers[i].serverQueueSize] >>
             \o ServerView(lb, servers, i + 1)

DrainRecord(req, lb, ids, servers, si, outcome, reason, counted) ==
    [id |-> req.id, lbId |-> lb.id, availableIds |-> ids,
     view |-> ServerView(lb, servers, 1),
     serverId |-> IF si = 0 THEN NoId ELSE servers[si].id,
     outcome |-> outcome, reason |-> reason, counted |-> counted,
     activeConnections |-> lb.activeConnections,
     health |-> IF si = 0 THEN NoId ELSE servers[si].health,
     circuitBreakerUntilMs |-> IF si = 0 THEN 0 ELSE servers[si].circuitBreakerUntilMs,
     snapshot |-> IF si = 0 THEN FALSE ELSE snapshotSays(lb, servers[si].id),
     inflightLength |-> IF si = 0 THEN 0 ELSE Len(servers[si].inflight),
     queueLength |-> IF si = 0 THEN 0 ELSE Len(servers[si].queue),
     maxConcurrentRequests |-> IF si = 0 THEN 0 ELSE servers[si].maxConcurrentRequests,
     serverQueueSize |-> IF si = 0 THEN 0 ELSE servers[si].serverQueueSize]

\* startProcessing that forgets totals.started
startProcessingUncounted(st, si, req) ==
    LET processingTimeMs == computeProcessingTime(st.servers[si], st.ewmaAlpha)
        started == [req EXCEPT !.startProcessingMs = st.timeMs,
                               !.processingTimeMs = processingTimeMs,
                               !.remainingTimeMs = processingTimeMs,
                               !.status = "processing"]
    IN [st EXCEPT !.servers[si].inflight = Append(@, started)]

\* startProcessing that leaves the status the request came with
startProcessingStale(st, si, req) ==
    LET processingTimeMs == computeProcessingTime(st.servers[si], st.ewmaAlpha)
        started == [req EXCEPT !.startProcessingMs = st.timeMs,
                               !.processingTimeMs = processingTimeMs,
                               !.remainingTimeMs = processingTimeMs]
    IN [st EXCEPT !.servers[si].inflight = Append(@, started),
                  !.totals.started = @ + 1]

\* lines 284-289 and 343-348: the request enters the in-flight list of
\* server si and is counted as started
startProcessing(st, si, req) ==
    LET processingTimeMs == computeProcessingTime(st.servers[si], st.ewmaAlpha)
        started == [req EXCEPT !.startProcessingMs = st.timeMs,
                               !.processingTimeMs = processingTimeMs,
                               !.remainingTimeMs = processingTimeMs,
                               !.status = "processing"]
    IN [st EXCEPT !.servers[si].inflight = Append(@, started),
                  !.totals.started = @ + 1]

\* placement with the in-flight test off by one
placementOffByOne(server) ==
    IF Len(server.inflight) <= server.maxConcurrentRequests THEN "processing"
    ELSE IF Len(server.queue) < server.serverQueueSize THEN "server-queued"
    ELSE "failed"

\* placement that prefers the queue to a free slot
placementQueueFirst(server) ==
    IF Len(server.queue) < server.serverQueueSize THEN "server-queued"
    ELSE IF Len(server.inflight) < server.maxConcurrentRequests THEN "processing"
    ELSE "failed"

\* lines 283, 298, 310: where a routed request goes
placement(server) ==
    IF Len(server.inflight) < server.maxConcurrentRequests THEN "processing"
    ELSE IF Len(server.queue) < server.serverQueueSize THEN "server-queued"
    ELSE "failed"

\* lines 275-326: place the request on the chosen server
dispatch(st, leader, si, req, reason) ==
    LET now == st.timeMs
        lb == st.loadBalancers[leader]
        server == st.servers[si]
        routed == [req EXCEPT !.lbId = lb.id, !.serverId = server.id]
        st1 == [st EXCEPT !.loadBalancers[leader].activeConnections = @ + 1]
        outcome == placement(server)
    IN IF outcome = "processing"
       THEN [st |-> [startProcessing(st1, si, routed) EXCEPT
                        !.log = pushLog(@, LogEntry(req.id, now, "processing",
                                    Message("dispatched", reason, Undef),
                                    lb.id, server.id))],
             outcome |-> outcome, reason |-> reason, ended |-> <<>>]
       ELSE IF outcome = "server-queued"
       THEN LET queued == [routed EXCEPT !.serverQueueEnterMs = now,
                                         !.status = "server-queued"]
            IN [st |-> [st1 EXCEPT
                           !.servers[si].queue = Append(@, queued),
                           !.log = pushLog(@, LogEntry(req.id, now, "server-queued",
                                       Message("queued", reason, Undef),
                                       lb.id, server.id))],
                outcome |-> outcome, reason |-> reason, ended |-> <<>>]
       ELSE [st |-> [st1 EXCEPT
                        !.totals.failed = @ + 1,
                        !.totals.droppedServer = @ + 1,
                        !.servers[si].totalFailed = @ + 1,
                        !.servers[si].circuitBreakerUntilMs = now + st.recoveryDelayMs,
                        !.log = pushLog(@, LogEntry(req.id, now, "failed",
                                    Message("failed", "server queue full (503)", Undef),
                                    lb.id, server.id)),
                        !.loadBalancers[leader].activeConnections =
                            Max2(0, st1.loadBalancers[leader].activeConnections - 1)],
             outcome |-> outcome, reason |-> "server queue full (503)",
             ended |-> << [routed EXCEPT !.status = "failed"] >>]

\* lines 226-327: the request pulled from the leader's queue meets the
\* selection; tr.routedThisTick grows only where the code reaches
\* routedThisTick += 1, and tr.ended keeps the record of a request that
\* failed, as the code leaves it
route(w, leader, req, st1, ids, selection) ==
    LET now == st1.timeMs
        lb == st1.loadBalancers[leader]
        st2 == IF selection.rrIndex # Undef
               THEN [st1 EXCEPT !.rrIndex = selection.rrIndex] ELSE st1
        si == FindById(st2.servers, selection.serverId)
        failed == [req EXCEPT !.status = "failed"]
        failedWith(reason) ==
            [st2 EXCEPT !.totals.failed = @ + 1,
                        !.log = pushLog(@, LogEntry(req.id, now, "failed",
                                    Message("failed", reason, Undef), lb.id,
                                    IF reason = "server unavailable"
                                    THEN selection.serverId ELSE NoId))]
    IN IF selection.serverId = NoId
       THEN [st |-> failedWith(selection.reason),
             tr |-> [w.tr EXCEPT !.ended = Append(@, failed),
                                 !.drains = Append(@,
                        DrainRecord(req, lb, ids, st2.servers, 0, "failed",
                                    selection.reason, 0))]]
       ELSE IF si = 0
       THEN [st |-> failedWith("server not found"),
             tr |-> [w.tr EXCEPT !.ended = Append(@, failed),
                                 !.drains = Append(@,
                        DrainRecord(req, lb, ids, st2.servers, 0, "failed",
                                    "server not found", 0))]]
       ELSE IF ~isServerAvailable(st2.servers[si], now)
       THEN [st |-> [failedWith("server unavailable")
                        EXCEPT !.servers[si].totalFailed = @ + 1],
             tr |-> [w.tr EXCEPT !.ended = Append(@, failed),
                                 !.drains = Append(@,
                        DrainRecord(req, lb, ids, st2.servers, si, "failed",
                                    "server unavailable", 0))]]
       ELSE LET d == dispatch(st2, leader, si, req, selection.reason)
            IN [st |-> d.st,
                tr |-> [w.tr EXCEPT
                           !.routedThisTick = @ + 1,
                           !.ended = @ \o d.ended,
                           !.drains = Append(@,
                               DrainRecord(req, lb, ids, st2.servers, si,
                                           d.outcome, d.reason, 1))]]

\* lines 205-224: one iteration of the drain loop pulls the head of the
\* leader's queue, samples its wait and asks the algorithm for a server
drainOne(w, leader) ==
    LET st == w.st
        now == st.timeMs
        lb == st.loadBalancers[leader]
        head == Head(lb.queue)
        req == [head EXCEPT
                   !.lbQueueExitMs = now,
                   !.lbQueueWaitMs = now - Coalesce(head.lbQueueEnterMs, head.arrivalTimeMs)]
        st1 == [st EXCEPT !.loadBalancers[leader].queue = Tail(@),
                          !.recentLbWaits = pushSample(@, req.lbQueueWaitMs)]
        algorithm == getAlgorithm(IF lb.routingAlgorithm = NoId THEN st.algorithmId
                                  ELSE lb.routingAlgorithm)
        ids == availableIds(st1, leader)
    IN route(w, leader, req, st1, ids,
             select(algorithm, st1.servers, ids, st1.rrIndex, req.id))

\* a budget that is one short
maxPerTickOfShort(lb, dtMs) == Max2(0, (lb.maxConnectionsPerSecond * dtMs) \div 1000 - 1)

\* lines 194-197
maxPerTickOf(lb, dtMs) == Max2(0, (lb.maxConnectionsPerSecond * dtMs) \div 1000)

\* lines 200-204: the loop condition
drainGuard(lb, routedThisTick, maxPerTick) ==
    /\ Len(lb.queue) > 0
    /\ routedThisTick < maxPerTick
    /\ lb.activeConnections < lb.maxConcurrentConnections

RECURSIVE drainLoop(_, _, _)
drainLoop(w, leader, maxPerTick) ==
    IF drainGuard(w.st.loadBalancers[leader], w.tr.routedThisTick, maxPerTick)
    THEN drainLoop(drainOne(w, leader), leader, maxPerTick)
    ELSE w

\* lines 193-328
drain(w, leader, dtMs) ==
    IF leader # 0 /\ w.st.loadBalancers[leader].isUp
    THEN LET maxPerTick == maxPerTickOf(w.st.loadBalancers[leader], dtMs)
         IN drainLoop([w EXCEPT !.tr.maxPerTick = maxPerTick], leader, maxPerTick)
    ELSE w

\* lines 331-334: the loop condition of the promotion
promoteGuard(server) ==
    Len(server.queue) > 0 /\ Len(server.inflight) < server.maxConcurrentRequests

\* lines 331-349: promote queued requests of server si while a slot is free
RECURSIVE promoteLoop(_, _)
promoteLoop(w, si) ==
    LET st == w.st
        now == st.timeMs
        server == st.servers[si]
    IN IF promoteGuard(server)
       THEN LET head == Head(server.queue)
                serverQueueWaitMs == now - Coalesce(head.serverQueueEnterMs, now)
                leaving == [head EXCEPT !.serverQueueExitMs = now,
                                        !.serverQueueWaitMs = serverQueueWaitMs]
                st1 == [st EXCEPT
                           !.servers[si].queue = Tail(@),
                           !.recentServerWaits = pushSample(@, serverQueueWaitMs)]
            IN promoteLoop(
                   [st |-> startProcessing(st1, si, leaving),
                    tr |-> [w.tr EXCEPT !.promotions = Append(@,
                               [id |-> head.id, serverId |-> server.id,
                                inflightLength |-> Len(server.inflight)])]],
                   si)
       ELSE w

\* a completion that leaves no record of the request
completeUnrecorded(w, si, req) == w

\* lines 357-393: request req of server si has finished; tr.ended keeps its
\* record as the code leaves it
complete(w, si, req) ==
    LET st == w.st
        now == st.timeMs
        server == st.servers[si]
        lbQueueWaitMs == Coalesce(req.lbQueueExitMs, now)
                             - Coalesce(req.lbQueueEnterMs, req.arrivalTimeMs)
        serverQueueWaitMs == Coalesce(req.serverQueueExitMs, now)
                                 - Coalesce(req.serverQueueEnterMs,
                                            Coalesce(req.startProcessingMs, now))
        latencyMs == now - req.arrivalTimeMs
        li == FindById(st.loadBalancers, req.lbId)
        st1 == [st EXCEPT
                   !.recentLatencies = pushSample(@, latencyMs),
                   !.recentLbWaits = pushSample(@, lbQueueWaitMs),
                   !.recentServerWaits = pushSample(@, serverQueueWaitMs),
                   !.servers[si].totalProcessed = @ + 1,
                   !.totals.completed = @ + 1,
                   !.servers[si].ewmaLatencyMs =
                       (st.ewmaAlpha * latencyMs * 1000 + (10 - st.ewmaAlpha) * @) \div 10,
                   !.log = pushLog(@, LogEntry(req.id, now, "completed",
                               Message("completed", "", latencyMs), req.lbId, server.id))]
        st2 == IF li = 0 THEN st1
               ELSE [st1 EXCEPT !.loadBalancers[li].activeConnections = Max2(0, @ - 1)]
    IN [st |-> st2,
        tr |-> [w.tr EXCEPT
                   !.ended = Append(@,
                       [req EXCEPT !.status = "completed",
                                   !.lbQueueWaitMs = lbQueueWaitMs,
                                   !.serverQueueWaitMs = serverQueueWaitMs,
                                   !.processingTimeMs = Coalesce(@, 0)]),
                   !.completions = Append(@,
                   [id |-> req.id, serverId |-> server.id, lbId |-> req.lbId,
                    latencyMs |-> latencyMs,
                    processingTimeMs |-> Coalesce(req.processingTimeMs, 0),
                    timeDen |-> TimeDen(server)])]]

\* lines 351-398: advance the in-flight requests of server si by dtMs;
\* inflight is the list being iterated, stillInflight the one being built
RECURSIVE progressLoop(_, _, _, _, _, _)
progressLoop(w, si, inflight, i, stillInflight, dtMs) ==
    IF i > Len(inflight)
    THEN [w EXCEPT !.st.servers[si].inflight = stillInflight]
    ELSE LET req == inflight[i]
             remainingTimeMs == (IF req.remainingTimeMs = Undef THEN 0
                                 ELSE req.remainingTimeMs)
                                    - dtMs * TimeDen(w.st.servers[si])
         IN IF remainingTimeMs <= 0
            THEN progressLoop(complete(w, si,
                                       [req EXCEPT !.remainingTimeMs = remainingTimeMs]),
                              si, inflight, i + 1, stillInflight, dtMs)
            ELSE progressLoop(w, si, inflight, i + 1,
                              Append(stillInflight,
                                     [req EXCEPT !.remainingTimeMs = remainingTimeMs]),
                              dtMs)

\* lines 330-399
RECURSIVE serverLoop(_, _, _)
serverLoop(w, si, dtMs) ==
    IF si > Len(w.st.servers) THEN w
    ELSE LET promoted == promoteLoop(w, si)
         IN serverLoop(progressLoop(promoted, si, promoted.st.servers[si].inflight,
                                    1, <<>>, dtMs),
                       si + 1, dtMs)

\* lines 41-51, on integer samples: avg in 1/1000, rounded down
avg(values) ==
    IF Len(values) = 0 THEN 0 ELSE (1000 * SumSeq(values)) \div Len(values)

p95(values) ==
    IF Len(values) = 0 THEN 0
    ELSE LET index == Min({Len(values) - 1, (Len(values) * 95) \div 100})
             below(v) == Cardinality({j \in 1..Len(values) : values[j] < v})
             upto(v) == Cardinality({j \in 1..Len(values) : values[j] <= v})
         IN CHOOSE v \in {values[j] : j \in 1..Len(values)} :
                below(v) <= index /\ index < upto(v)

\* lines 401-432
metricsPoint(st) ==
    LET totalInflight == SumSeq([i \in 1..Len(st.servers) |-> Len(st.servers[i].inflight)])
        totalServerQueued == SumSeq([i \in 1..Len(st.servers) |-> Len(st.servers[i].queue)])
        totalLbQueued ==
            SumSeq([i \in 1..Len(st.loadBalancers) |-> Len(st.loadBalancers[i].queue)])
        failureTotal == st.totals.failed + st.totals.droppedLb + st.totals.droppedServer
        totalProcessed == st.totals.completed + failureTotal
    IN [timeMs |-> st.timeMs,
        avgLatencyMs |-> avg(st.recentLatencies),
        p95LatencyMs |-> p95(st.recentLatencies),
        lbQueueDepth |-> totalLbQueued,
        serverQueueDepth |-> totalServerQueued,
        inflight |-> totalInflight,
        failureRate |-> IF totalProcessed = 0 THEN 0
                        ELSE (failureTotal * 100000) \div totalProcessed,
        dropsLb |-> st.totals.droppedLb,
        dropsServer |-> st.totals.droppedServer,
        avgLbWaitMs |-> avg(st.recentLbWaits),
        avgServerWaitMs |-> avg(st.recentServerWaits)]

\* lines 434-437
pushMetrics(st) ==
    [st EXCEPT !.metrics = KeepLast(Append(@, metricsPoint(st)), METRICS_LIMIT)]

\* lines 401-439: the step ends with the metrics point
endStep(w) == [st |-> pushMetrics(w.st), tr |-> w.tr]

\* lines 104-440: the successor state and the history of the step
stepRun(prev, dtMs) ==
    LET st0 == beginStep(prev, dtMs)
        arrivals == arrivalCount(st0, dtMs)
        st1 == [st0 EXCEPT !.pendingRemainder = carriedRemainder(st0, dtMs)]
        el == ensureLeader(st1)
        st2 == [st1 EXCEPT !.leaderLbId = el.leaderLbId]
        w0 == [st |-> st2,
               tr |-> [EmptyTrace("stepSimulation", dtMs)
                          EXCEPT !.leader = el.leaderLbId]]
        w1 == refreshAll(w0, 1)
        w2 == admitAll(w1, el.leader, arrivals)
        w3 == drain(w2, el.leader, dtMs)
    IN endStep(serverLoop(w3, 1, dtMs))

stepSimulation(prev, dtMs) == stepRun(prev, dtMs).st

(***************************************************************************)
(* simulator.ts : createInitialState, scenarios.ts : buildStateFromScenario *)
(***************************************************************************)
ServerConfig(id, health, baseLatencyMs, weight, maxConcurrentRequests, serverQueueSize) ==
    [id |-> id, health |-> health, baseLatencyMs |-> baseLatencyMs,
     slowMultiplier |-> 18, weight |-> weight,
     maxConcurrentRequests |-> maxConcurrentRequests,
     serverQueueSize |-> serverQueueSize]

LbConfig(id, isUp, maxConnectionsPerSecond, maxConcurrentConnections, queueSize, routingAlgorithm) ==
    [id |-> id, isUp |-> isUp,
     maxConnectionsPerSecond |-> maxConnectionsPerSecond,
     maxConcurrentConnections |-> maxConcurrentConnections,
     queueSize |-> queueSize, routingAlgorithm |-> routingAlgorithm]

\* the scenarios the model starts from (small capacities, short latencies)
Scenarios ==
    { [algorithmId |-> "round-robin", workloadId |-> "steady",
       healthCheckIntervalMs |-> 150, recoveryDelayMs |-> 200,
       servers |-> << ServerConfig("srv-1", "UP", 120, 1, 1, 1),
                      ServerConfig("srv-2", "SLOW", 60, 2, 2, 0) >>,
       loadBalancers |-> << LbConfig("lb-1", TRUE, 40, 60, 2, "round-robin"),
                            LbConfig("lb-2", TRUE, 20, 1, 1, "least-connections") >>],
      [algorithmId |-> "p2c", workloadId |-> "steady",
       healthCheckIntervalMs |-> 150, recoveryDelayMs |-> 200,
       servers |-> << ServerConfig("srv-1", "UP", 250, 2, 1, 0),
                      ServerConfig("srv-2", "UP", 250, 1, 1, 1) >>,
       loadBalancers |-> << LbConfig("lb-1", TRUE, 10, 1, 3, "weighted-round-robin"),
                            LbConfig("lb-2", FALSE, 40, 2, 1, NoId) >>],
      [algorithmId |-> "ewma", workloadId |-> "steady",
       healthCheckIntervalMs |-> 150, recoveryDelayMs |-> 200,
       servers |-> << ServerConfig("srv-1", "UP", 40, 1, 2, 1),
                      ServerConfig("srv-2", "DOWN", 40, 1, 1, 1) >>,
       loadBalancers |-> << LbConfig("lb-1", TRUE, 0, 60, 1, "ewma"),
                            LbConfig("lb-2", TRUE, 40, 60, 2, NoId) >>] }

buildStateFromScenario(scenario) ==
    LET servers ==
            [i \in 1..Len(scenario.servers) |->
                LET c == scenario.servers[i]
                IN [id |-> c.id, health |-> c.health,
                    baseLatencyMs |-> c.baseLatencyMs,
                    slowMultiplier |-> c.slowMultiplier, weight |-> c.weight,
                    maxConcurrentRequests |-> c.maxConcurrentRequests,
                    serverQueueSize |-> c.serverQueueSize,
                    inflight |-> <<>>, queue |-> <<>>,
                    totalProcessed |-> 0, totalFailed |-> 0,
                    ewmaLatencyMs |-> 1000 * c.baseLatencyMs,
                    circuitBreakerUntilMs |-> 0,
                    lastHealthChangeMs |-> 0]]
        loadBalancers ==
            [i \in 1..Len(scenario.loadBalancers) |->
                LET c == scenario.loadBalancers[i]
                IN [id |-> c.id, isUp |-> c.isUp,
                    maxConnectionsPerSecond |-> c.maxConnectionsPerSecond,
                    maxConcurrentConnections |-> c.maxConcurrentConnections,
                    queueSize |-> c.queueSize,
                    routingAlgorithm |-> c.routingAlgorithm,
                    droppedRequests |-> 0, queue |-> <<>>,
                    activeConnections |-> 0,
                    healthIntervalMs |-> scenario.healthCheckIntervalMs,
                    lastHealthCheckMs |-> 0,
                    healthSnapshot |->
                        [id \in {servers[j].id : j \in 1..Len(servers)} |->
                            servers[FindById(servers, id)].health # "DOWN"]]]
    IN [timeMs |-> 0,
        tickMs |-> 1000,
        nextRequestId |-> 1,
        pendingRemainder |-> <<0, 0, 0, 0>>,
        recentLatencies |-> <<>>,
        recentLbWaits |-> <<>>,
        recentServerWaits |-> <<>>,
        algorithmId |-> scenario.algorithmId,
        workloadId |-> scenario.workloadId,
        rrIndex |-> 0,
        ewmaAlpha |-> 2,
        loadBalancers |-> loadBalancers,
        leaderLbId |-> IF Len(loadBalancers) = 0 THEN Null ELSE loadBalancers[1].id,
        servers |-> servers,
        log |-> <<>>,
        metrics |-> <<>>,
        totals |-> [completed |-> 0, failed |-> 0, started |-> 0,
                    droppedLb |-> 0, droppedServer |-> 0],
        healthCheckIntervalMs |-> scenario.healthCheckIntervalMs,
        recoveryDelayMs |-> scenario.recoveryDelayMs]

(***************************************************************************)
(* The state machine.                                                      *)
(***************************************************************************)
Init ==
    /\ \E scenario \in Scenarios : state = buildStateFromScenario(scenario)
    /\ tick = EmptyTrace("init", 0)
    /\ envOps = 0
    /\ timer = 0

\* setState: the result of the call becomes the state
Stepped(r) == state' = r.st /\ tick' = r.tr

\* the driver calls stepSimulation(prev, dtMs)
Step ==
    \E dtMs \in Dts :
        /\ state.timeMs + dtMs <= MaxTime
        /\ Stepped(stepRun(state, dtMs))
        /\ UNCHANGED <<envOps, timer>>

\* the driver's updateServer(id, { health }); taking a server DOWN comes
\* with or without a new lastHealthChangeMs (the field is read only while
\* the server is DOWN)
UpdateServer ==
    \E si \in 1..Len(state.servers), health \in {"UP", "SLOW", "DOWN"}, stamp \in BOOLEAN :
        /\ envOps < MaxEnvOps
        /\ state.servers[si].health # health
        /\ stamp => health = "DOWN"
        /\ state' = [state EXCEPT
                        !.servers[si].health = health,
                        !.servers[si].lastHealthChangeMs =
                            IF stamp THEN state.timeMs ELSE @]
        /\ tick' = EmptyTrace("setState", 0)
        /\ envOps' = envOps + 1
        /\ UNCHANGED timer

\* the driver's updateLoadBalancer(id, { isUp: !lb.isUp })
UpdateLoadBalancer ==
    \E li \in 1..Len(state.loadBalancers) :
        /\ envOps < MaxEnvOps
        /\ state' = [state EXCEPT !.loadBalancers[li].isUp = ~@]
        /\ tick' = EmptyTrace("setState", 0)
        /\ envOps' = envOps + 1
        /\ UNCHANGED timer

\* the driver's onMakeLeader: leaderLbId := lb.id
MakeLeader ==
    \E li \in 1..Len(state.loadBalancers) :
        /\ envOps < MaxEnvOps
        /\ state.leaderLbId # state.loadBalancers[li].id
        /\ state' = [state EXCEPT !.leaderLbId = state.loadBalancers[li].id]
        /\ tick' = EmptyTrace("setState", 0)
        /\ envOps' = envOps + 1
        /\ UNCHANGED timer

Next == Step \/ UpdateServer \/ UpdateLoadBalancer \/ MakeLeader

Spec == Init /\ [][Next]_vars

(***************************************************************************)
(* Stepping without end.  The driver's timer calls stepSimulation for as   *)
(* long as the page runs, so the clock, the request ids, the counters and  *)
(* the histories grow without bound.  To follow such a run in finitely     *)
(* many states the state is rebased after every step:                      *)
(*   - the time origin moves to the current time (the code reads times     *)
(*     only through differences and comparisons with timeMs; a time so old *)
(*     that its comparison can no longer change is kept at that age);      *)
(*   - the live requests are renumbered 1..k in the order of their ids     *)
(*     (ids are read only by p2c and by the log), so request 1 is always   *)
(*     the oldest live request;                                            *)
(*   - what the code only writes (totals, counters, log, metrics, samples, *)
(*     and ewmaLatencyMs, read only by the ewma algorithm) is reset;       *)
(*   - rrIndex is kept modulo a common multiple of every divisor the       *)
(*     round-robin algorithms apply to it.                                 *)
(* This is exact for scenarios with a steady workload whose load balancers *)
(* use neither p2c nor ewma.  tick keeps the ids of the step, before the   *)
(* renumbering.                                                            *)
(***************************************************************************)
RECURSIVE RequestIds(_)
RequestIds(requests) ==
    IF requests = <<>> THEN {}
    ELSE {Head(requests).id} \cup RequestIds(Tail(requests))

RECURSIVE LbHeldIds(_, _)
LbHeldIds(loadBalancers, i) ==
    IF i > Len(loadBalancers) THEN {}
    ELSE RequestIds(loadBalancers[i].queue) \cup LbHeldIds(loadBalancers, i + 1)

RECURSIVE ServerHeldIds(_, _)
ServerHeldIds(servers, i) ==
    IF i > Len(servers) THEN {}
    ELSE RequestIds(servers[i].inflight) \cup RequestIds(servers[i].queue)
             \cup ServerHeldIds(servers, i + 1)

\* the ids of the requests in the live containers: every load balancer's
\* queue, every server's queue and in-flight list
LiveIdsOf(st) == LbHeldIds(st.loadBalancers, 1) \cup ServerHeldIds(st.servers, 1)

Rank(live, id) == Cardinality({j \in live : j <= id})

Elapsed(t) == IF t = Undef THEN Undef ELSE 0

Renumbered(req, live) ==
    [req EXCEPT !.id = Rank(live, @),
                !.arrivalTimeMs = 0,
                !.lbQueueEnterMs = Elapsed(@),
                !.lbQueueExitMs = Elapsed(@),
                !.lbQueueWaitMs = Elapsed(@),
                !.serverQueueEnterMs = Elapsed(@),
                !.serverQueueExitMs = Elapsed(@),
                !.serverQueueWaitMs = Elapsed(@),
                !.startProcessingMs = Elapsed(@)]

RECURSIVE RenumberedAll(_, _)
RenumberedAll(requests, live) ==
    IF requests = <<>> THEN <<>>
    ELSE <<Renumbered(Head(requests), live)>> \o RenumberedAll(Tail(requests), live)

RECURSIVE RebasedServers(_, _, _, _, _)
RebasedServers(servers, i, live, timeMs, recoveryDelayMs) ==
    IF i > Len(servers) THEN <<>>
    ELSE << [servers[i] EXCEPT
                !.inflight = RenumberedAll(@, live),
                !.queue = RenumberedAll(@, live),
                !.totalProcessed = 0,
                !.totalFailed = 0,
                !.ewmaLatencyMs = 1000 * servers[i].baseLatencyMs,
                !.circuitBreakerUntilMs = Max2(@ - timeMs, 0),
                !.lastHealthChangeMs = Max2(@ - timeMs, 0 - recoveryDelayMs)] >>
             \o RebasedServers(servers, i + 1, live, timeMs, recoveryDelayMs)

RECURSIVE RebasedLoadBalancers(_, _, _, _, _)
RebasedLoadBalancers(loadBalancers, i, live, timeMs, intervalMs) ==
    IF i > Len(loadBalancers) THEN <<>>
    ELSE << [loadBalancers[i] EXCEPT
                !.queue = RenumberedAll(@, live),
                !.droppedRequests = 0,
                !.lastHealthCheckMs = Max2(@ - timeMs, 0 - intervalMs)] >>
             \o RebasedLoadBalancers(loadBalancers, i + 1, live, timeMs, intervalMs)

RECURSIVE Product(_)
Product(S) ==
    IF S = {} THEN 1
    ELSE LET x == CHOOSE y \in S : TRUE IN x * Product(S \ {x})

RECURSIVE WeightSum(_, _)
WeightSum(servers, S) ==
    IF S = {} THEN 0
    ELSE LET i == CHOOSE j \in S : TRUE
         IN Max2(1, servers[i].weight) + WeightSum(servers, S \ {i})

\* a common multiple of every availableIds.length and every totalWeight
RrPeriod(servers) ==
    Product((1..Len(servers))
                \cup {WeightSum(servers, S) : S \in (SUBSET (1..Len(servers))) \ {{}}})

Rebase(st) ==
    LET live == LiveIdsOf(st)
    IN [st EXCEPT
           !.timeMs = 0,
           !.nextRequestId = Cardinality(live) + 1,
           !.recentLatencies = <<>>,
           !.recentLbWaits = <<>>,
           !.recentServerWaits = <<>>,
           !.log = <<>>,
           !.metrics = <<>>,
           !.totals = [completed |-> 0, failed |-> 0, started |-> 0,
                       droppedLb |-> 0, droppedServer |-> 0],
           !.rrIndex = @ % RrPeriod(st.servers),
           !.servers = RebasedServers(@, 1, live, st.timeMs, st.recoveryDelayMs),
           !.loadBalancers =
               RebasedLoadBalancers(@, 1, live, st.timeMs, st.healthCheckIntervalMs)]

\* the scenarios for which rebasing is exact
Rebasable(scenario) ==
    /\ scenario.workloadId = "steady"
    /\ scenario.algorithmId \notin {"p2c", "ewma"}
    /\ \A i \in 1..Len(scenario.loadBalancers) :
           scenario.loadBalancers[i].routingAlgorithm \notin {"p2c", "ewma"}

\* one load balancer that admits but never drains (maxConnectionsPerSecond
\* 0) with a queue of capacity 1, in front of one server
ScenarioB ==
    [algorithmId |-> "round-robin", workloadId |-> "steady",
     healthCheckIntervalMs |-> 150, recoveryDelayMs |-> 200,
     servers |-> << ServerConfig("srv-1", "UP", 120, 1, 1, 1) >>,
     loadBalancers |-> << LbConfig("lb-1", TRUE, 0, 60, 1, NoId) >>]

LiveScenarios == {scenario \in Scenarios \cup {ScenarioB} : Rebasable(scenario)}

LiveInit ==
    /\ \E scenario \in LiveScenarios : state = buildStateFromScenario(scenario)
    /\ tick = EmptyTrace("init", 0)
    /\ envOps = 0
    /\ timer = 0

\* the interval timer fires and queues setState(prev => stepSimulation(prev, dt))
Fire ==
    /\ timer = 0
    /\ \E dtMs \in Dts : timer' = dtMs
    /\ UNCHANGED <<state, tick, envOps>>

Ran(r) == state' = Rebase(r.st) /\ tick' = r.tr

\* the queued update runs: stepSimulation(prev, dt)
Run ==
    /\ timer # 0
    /\ Ran(stepRun(state, timer))
    /\ timer' = 0
    /\ UNCHANGED envOps

\* what Run does to the timer; no other action clears it
Cleared == timer # 0 /\ timer' = 0

\* the driver's edits are applied between two timer callbacks
LiveEditing == timer = 0 /\ envOps < MaxLiveEdits

LiveNext ==
    \/ Fire
    \/ Run
    \/ (LiveEditing /\ UpdateServer)
    \/ (LiveEditing /\ UpdateLoadBalancer)
    \/ (LiveEditing /\ MakeLeader)

\* the timer keeps firing and a queued update is eventually run (weak
\* fairness of Run, stated on the timer, which only Run clears)
LiveSpec == LiveInit /\ [][LiveNext]_vars /\ WF_vars(Fire) /\ WF_timer(Cleared)

(***************************************************************************)
(* Properties.                                                             *)
(***************************************************************************)
AfterStep == tick.op = "stepSimulation"

TotalInflight ==
    SumSeq([i \in 1..Len(state.servers) |-> Len(state.servers[i].inflight)])

TotalServerQueued ==
    SumSeq([i \in 1..Len(state.servers) |-> Len(state.servers[i].queue)])

TotalLbQueued ==
    SumSeq([i \in 1..Len(state.loadBalancers) |-> Len(state.loadBalancers[i].queue)])

FailureTotal ==
    state.totals.failed + state.totals.droppedLb + state.totals.droppedServer

\* C1, as stated: after every step totals.started equals totals.completed
\* plus the three failure counters plus the number of live requests
\* (in-flight, server-queued and LB-queued).
C1_ConservationAsStated ==
    AfterStep =>
        state.totals.started =
            state.totals.completed + FailureTotal
                + TotalInflight + TotalServerQueued + TotalLbQueued

\* C1, amended: totals.started counts the requests that have entered an
\* in-flight list, so after every step it equals totals.completed plus the
\* number of requests currently in flight; failed, dropped and queued
\* requests are not part of it.
C1_StartedConservation ==
    AfterStep => state.totals.started = state.totals.completed + TotalInflight

\* a step after which requests have completed, are in flight, are queued
\* and have failed
C1_Witness ==
    /\ AfterStep
    /\ state.totals.completed > 0
    /\ TotalInflight > 0
    /\ TotalServerQueued + TotalLbQueued > 0
    /\ FailureTotal > 0
    /\ Len(tick.promotions) > 0

RECURSIVE IdsWithOutcome(_, _)
\* the ids of the admission or drain records with the given outcome
IdsWithOutcome(records, outcome) ==
    IF records = <<>> THEN {}
    ELSE (IF Head(records).outcome = outcome THEN {Head(records).id} ELSE {})
             \cup IdsWithOutcome(Tail(records), outcome)

CountWithOutcome(records, outcome) ==
    Cardinality({k \in 1..Len(records) : records[k].outcome = outcome})

\* the requests that reached a terminal status in the step traced by tr:
\* completed, or failed at admission or at routing
Settled(tr) ==
    RequestIds(tr.completions) \cup IdsWithOutcome(tr.drains, "failed")
        \cup IdsWithOutcome(tr.admissions, "failed")

SettledCount(tr) ==
    Len(tr.completions) + CountWithOutcome(tr.drains, "failed")
        + CountWithOutcome(tr.admissions, "failed")

NoneLive == LiveIdsOf(state) = {}

\* the oldest live request (request 1 under LiveSpec) reached a terminal
\* status in the last step
OldestSettled == AfterStep /\ 1 \in Settled(tick)

\* C2, as stated: as stepping continues, every request eventually reaches a
\* terminal status (completed or failed); no request stays lb-queued,
\* server-queued or processing forever.  Under LiveSpec the live requests
\* are numbered by age, and a request that stays live forever is, from some
\* step on, the oldest live request of every later state; so the statement
\* is that again and again either no request is live or the oldest live
\* request has just reached a terminal status.
C2_EveryRequestSettles == []<>(NoneLive \/ OldestSettled)

\* what one step does to the requests: the requests it creates take the
\* next ids; every terminal record is of a request that was live or was
\* created in the step, and no request has two; the others are all live
\* after the step, each in exactly one container; and a request that was
\* processing before the step completes in it if its remaining time is at
\* most dt, and otherwise stays on its server with dt less remaining.
SettlesOnceOrStaysLive ==
    LET before == LiveIdsOf(state)
        created == RequestIds(tick'.admissions)
        settled == Settled(tick')
    IN /\ created = state.nextRequestId ..
                        (state.nextRequestId + Len(tick'.admissions) - 1)
       /\ settled \subseteq before \cup created
       /\ SettledCount(tick') = Cardinality(settled)
       /\ LiveIdsOf(state') =
              1 .. (Cardinality(before \cup created) - Cardinality(settled))
       /\ TotalInflight' + TotalServerQueued' + TotalLbQueued'
              = Cardinality(LiveIdsOf(state'))
       /\ \A s \in 1..Len(state.servers) :
              \A k \in 1..Len(state.servers[s].inflight) :
                  LET r == state.servers[s].inflight[k]
                      left == r.remainingTimeMs - tick'.dtMs * TimeDen(state.servers[s])
                  IN IF left <= 0
                     THEN r.id \in RequestIds(tick'.completions)
                     ELSE /\ r.id \notin settled
                          /\ \E j \in 1..Len(state'.servers[s].inflight) :
                                 /\ state'.servers[s].inflight[j].id =
                                        r.id - Cardinality({t \in settled : t < r.id})
                                 /\ state'.servers[s].inflight[j].remainingTimeMs = left

\* C2, amended: no request vanishes and none ends twice: after every step
\* each request that was live before it or was created by it is either
\* live in exactly one container or has reached exactly one terminal
\* status in that step; and a request that is processing completes after
\* finitely many steps, its remaining time falling by dt in each.  A
\* request waiting in a load balancer's queue or in a server's queue may
\* wait forever (a leader whose drain budget floor(maxConnectionsPerSecond
\* * dt / 1000) is 0, a load balancer that is not the leader, a server
\* whose freed slots are taken by new dispatches before the promotion).
C2_SettlesOnceOrStaysLive ==
    [][ Cleared => SettlesOnceOrStaysLive ]_vars

\* a step in which a request completed and another failed while the oldest
\* live request stayed live, with requests still queued and in flight
C2_Witness ==
    /\ AfterStep
    /\ Len(tick.completions) > 0
    /\ CountWithOutcome(tick.drains, "failed")
           + CountWithOutcome(tick.admissions, "failed") > 0
    /\ 1 \notin Settled(tick)
    /\ TotalLbQueued + TotalServerQueued > 0
    /\ TotalInflight > 0

\* C3: after every step every server holds at most maxConcurrentRequests
\* in-flight and at most serverQueueSize queued requests, and every load
\* balancer holds at most queueSize queued requests.
C3_CapacityBound ==
    AfterStep =>
        /\ \A i \in 1..Len(state.servers) :
               /\ Len(state.servers[i].inflight) <= state.servers[i].maxConcurrentRequests
               /\ Len(state.servers[i].queue) <= state.servers[i].serverQueueSize
        /\ \A i \in 1..Len(state.loadBalancers) :
               Len(state.loadBalancers[i].queue) <= state.loadBalancers[i].queueSize

\* a step that leaves a server full (slots and queue) and that turned an
\* arrival away because the leader's queue was at its capacity
C3_Witness ==
    /\ AfterStep
    /\ \E i \in 1..Len(state.servers) :
           /\ state.servers[i].serverQueueSize > 0
           /\ Len(state.servers[i].inflight) = state.servers[i].maxConcurrentRequests
           /\ Len(state.servers[i].queue) = state.servers[i].serverQueueSize
    /\ \E k \in 1..Len(tick.admissions) :
           /\ tick.admissions[k].outcome = "failed"
           /\ tick.admissions[k].queueSize > 0
           /\ tick.admissions[k].queueLength = tick.admissions[k].queueSize

\* C4, as stated: a server that is DOWN while the leader's snapshot, taken
\* before it went down, still says available stays selectable by the leader:
\* in a step in which the leader's snapshot is not refreshed, such a server
\* (with an open slot or queue place and no circuit breaker) is among the
\* ids offered to routing for every drained request.
C4_StaleWindowSelectable ==
    AfterStep =>
        \A k \in 1..Len(tick.drains) :
            LET d == tick.drains[k]
            IN (d.lbId \notin tick.refreshed) =>
                   \A i \in 1..Len(d.view) :
                       ( /\ d.view[i].health = "DOWN"
                         /\ d.view[i].snapshot
                         /\ d.view[i].open
                         /\ d.view[i].circuitBreakerUntilMs <= state.timeMs )
                       => \E j \in 1..Len(d.availableIds) :
                              d.availableIds[j] = d.view[i].id

\* requests a load balancer has dispatched that have not completed
Outstanding(lbId) ==
    SumSeq([i \in 1..Len(state.servers) |->
               Cardinality({j \in 1..Len(state.servers[i].inflight) :
                               state.servers[i].inflight[j].lbId = lbId})
             + Cardinality({j \in 1..Len(state.servers[i].queue) :
                               state.servers[i].queue[j].lbId = lbId})])

\* C5, as stated: the requests a load balancer has dispatched and that have
\* not completed never exceed its maxConcurrentConnections.
C5_OutstandingWithinCap ==
    AfterStep =>
        \A i \in 1..Len(state.loadBalancers) :
            Outstanding(state.loadBalancers[i].id)
                <= state.loadBalancers[i].maxConcurrentConnections

\* C6, as stated: in each step the leader takes at most
\* floor(maxConnectionsPerSecond * dt / 1000) requests out of its queue,
\* whether they are dispatched or fail during routing.
C6_DrainBudget ==
    AfterStep => Len(tick.drains) <= tick.maxPerTick

LogHas(id, timeMs, status, serverId) ==
    \E k \in 1..Len(state.log) :
        /\ state.log[k].id = id
        /\ state.log[k].timeMs = timeMs
        /\ state.log[k].status = status
        /\ state.log[k].serverId = serverId

DispatchOutcome(d, now, servers) ==
    LET si == FindById(servers, d.serverId)
    IN IF d.inflightLength < d.maxConcurrentRequests
       THEN /\ d.outcome = "processing"
            /\ LogHas(d.id, now, "processing", d.serverId)
            /\ \/ \E j \in 1..Len(servers[si].inflight) : servers[si].inflight[j].id = d.id
               \/ LogHas(d.id, now, "completed", d.serverId)
       ELSE IF d.queueLength < d.serverQueueSize
       THEN /\ d.outcome = "server-queued"
            /\ LogHas(d.id, now, "server-queued", d.serverId)
            /\ \/ \E j \in 1..Len(servers[si].queue) : servers[si].queue[j].id = d.id
               \/ \E j \in 1..Len(servers[si].inflight) : servers[si].inflight[j].id = d.id
               \/ LogHas(d.id, now, "completed", d.serverId)
       ELSE /\ d.outcome = "failed"
            /\ LogHas(d.id, now, "failed", d.serverId)
            /\ servers[si].circuitBreakerUntilMs = now + state.recoveryDelayMs

Chosen(drains) == {k \in 1..Len(drains) : drains[k].serverId # NoId}

DispatchOutcomesHold ==
    \A k \in Chosen(tick.drains) :
        DispatchOutcome(tick.drains[k], state.timeMs, state.servers)

Ids(requests) == [k \in 1..Len(requests) |-> requests[k].id]

RECURSIVE SelectOutcome(_, _)
\* the ids of the admissions with the given outcome, in order
SelectOutcome(admissions, outcome) ==
    IF admissions = <<>> THEN <<>>
    ELSE (IF Head(admissions).outcome = outcome /\ Head(admissions).lbId # NoId
          THEN <<Head(admissions).id>> ELSE <<>>)
             \o SelectOutcome(Tail(admissions), outcome)

LiveIds ==
    UNION ( {{state.loadBalancers[i].queue[j].id :
                 j \in 1..Len(state.loadBalancers[i].queue)} :
                 i \in 1..Len(state.loadBalancers)}
            \cup {{state.servers[i].queue[j].id :
                      j \in 1..Len(state.servers[i].queue)} :
                      i \in 1..Len(state.servers)}
            \cup {{state.servers[i].inflight[j].id :
                      j \in 1..Len(state.servers[i].inflight)} :
                      i \in 1..Len(state.servers)} )

FailedLogEntries(id) ==
    Cardinality({k \in 1..Len(state.log) :
                    state.log[k].id = id /\ state.log[k].status = "failed"})

\* every arrival dropped by the last step carries dropReason, has one failed
\* log entry and is in no container
DropsRecorded(dropReason) ==
    \A k \in 1..Len(tick.admissions) :
        (tick.admissions[k].outcome = "failed" /\ tick.admissions[k].lbId # NoId) =>
            /\ tick.admissions[k].reason = dropReason
            /\ FailedLogEntries(tick.admissions[k].id) = 1
            /\ tick.admissions[k].id \notin LiveIds

\* what one step does with its arrivals when there is a leader; dropReason
\* is the reason recorded on a dropped arrival
Admission(dropReason) ==
    (tick'.op = "stepSimulation" /\ tick'.leader # Null) =>
        LET adm == tick'.admissions
            li == FindById(state.loadBalancers, tick'.leader)
            dropped == {k \in 1..Len(adm) : adm[k].outcome = "failed"}
        IN /\ \A k \in 1..Len(adm) :
                  /\ adm[k].lbId = tick'.leader
                  /\ (adm[k].outcome = "lb-queued")
                         <=> (adm[k].queueLength < adm[k].queueSize)
                  /\ k < Len(adm) =>
                         adm[k + 1].queueLength =
                             adm[k].queueLength
                                 + (IF adm[k].outcome = "lb-queued" THEN 1 ELSE 0)
           /\ DropsRecorded(dropReason)'
           \* admitted arrivals went to the back: what was drained, followed by
           \* what is left, is the old queue followed by the admitted arrivals
           /\ Ids(tick'.drains) \o Ids(state'.loadBalancers[li].queue)
                  = Ids(state.loadBalancers[li].queue) \o SelectOutcome(adm, "lb-queued")
           /\ state'.totals.droppedLb = state.totals.droppedLb + Cardinality(dropped)
           /\ state'.loadBalancers[li].droppedRequests =
                  state.loadBalancers[li].droppedRequests + Cardinality(dropped)
           /\ ( /\ state.loadBalancers[li].queueSize = 1
                /\ state.loadBalancers[li].maxConnectionsPerSecond = 0
                /\ Len(state.loadBalancers[li].queue) = 0
                /\ Len(adm) = 2 )
              => (adm[1].outcome = "lb-queued" /\ adm[2].outcome = "failed")

\* C8, as stated: an arrival enters the back of the leader's queue iff the
\* queue is below queueSize at that moment; otherwise it is dropped with
\* reason "admission queue full", droppedRequests and totals.droppedLb grow
\* by one each, one failed log entry is written and the queue is unchanged.
C8_AdmissionAsStated == [][Admission("admission queue full")]_vars

\* C8, amended: the same, the reason recorded on the dropped arrival being
\* "lb queue full (503)".
C8_Admission == [][Admission("lb queue full (503)")]_vars

\* queue capacity 1, admission rate 0: of two arrivals of one step the first
\* was admitted and the second dropped
C8_Witness ==
    /\ AfterStep
    /\ Len(tick.admissions) = 2
    /\ tick.admissions[1].outcome = "lb-queued"
    /\ tick.admissions[2].outcome = "failed"
    /\ tick.admissions[2].queueSize = 1
    /\ tick.admissions[2].reason = "lb queue full (503)"
    /\ tick.maxPerTick = 0
    /\ \E i \in 1..Len(state.loadBalancers) :
           /\ state.loadBalancers[i].id = tick.leader
           /\ state.loadBalancers[i].droppedRequests = 1
           /\ Len(state.loadBalancers[i].queue) = 1

LeaderIsTheUpOne ==
    LET lbs == state.loadBalancers
    IN /\ (state.leaderLbId = Null) <=> (\A i \in 1..Len(lbs) : ~lbs[i].isUp)
       /\ state.leaderLbId # Null =>
              /\ Cardinality({i \in 1..Len(lbs) : lbs[i].id = state.leaderLbId}) = 1
              /\ lbs[FindById(lbs, state.leaderLbId)].isUp
       /\ tick.leader = state.leaderLbId
       /\ \A k \in 1..Len(tick.admissions) :
              tick.admissions[k].lbId =
                  IF state.leaderLbId = Null THEN NoId ELSE state.leaderLbId
       /\ \A k \in 1..Len(tick.drains) : tick.drains[k].lbId = state.leaderLbId

\* C9: after every step leaderLbId is null exactly when no load balancer is
\* up and otherwise names exactly one load balancer, which is up; the
\* arrivals and the drained requests of the step are the leader's, and the
\* queue of every other load balancer is as it was.
C9_Leadership ==
    [][ (tick'.op = "stepSimulation") =>
          /\ LeaderIsTheUpOne'
          /\ \A i \in 1..Len(state.loadBalancers) :
                 state.loadBalancers[i].id # state'.leaderLbId =>
                     /\ state'.loadBalancers[i].queue = state.loadBalancers[i].queue
                     /\ state'.loadBalancers[i].droppedRequests
                            = state.loadBalancers[i].droppedRequests ]_vars

\* the first load balancer is down, the second leads and has admitted and
\* drained in the step
C9_Witness ==
    /\ AfterStep
    /\ ~state.loadBalancers[1].isUp
    /\ state.leaderLbId = state.loadBalancers[2].id
    /\ Len(tick.admissions) > 0
    /\ Len(tick.drains) > 0

\* no load balancer is up and the step has left leaderLbId null
C9_WitnessNoLeader ==
    /\ AfterStep
    /\ state.leaderLbId = Null
    /\ Len(tick.admissions) > 0

\* C10: every request a step places on a server (in flight or queued) goes
\* to a server that at that moment is not DOWN, is outside a circuit-breaker
\* cooldown, has a free slot or queue place, and is available in the
\* leader's health snapshot.
C10_RoutableTargets ==
    AfterStep =>
        \A k \in 1..Len(tick.drains) :
            LET d == tick.drains[k]
            IN d.outcome \in {"processing", "server-queued"} =>
                   /\ d.health # "DOWN"
                   /\ d.circuitBreakerUntilMs <= state.timeMs
                   /\ \/ d.inflightLength < d.maxConcurrentRequests
                      \/ d.queueLength < d.serverQueueSize
                   /\ d.snapshot

\* a request was placed while another server, up and open, was passed over
\* because the leader's snapshot said unavailable
C10_Witness ==
    /\ AfterStep
    /\ \E k \in 1..Len(tick.drains) :
           LET d == tick.drains[k]
           IN /\ d.outcome \in {"processing", "server-queued"}
              /\ \E i \in 1..Len(d.view) :
                     /\ d.view[i].health # "DOWN"
                     /\ d.view[i].open
                     /\ ~d.view[i].snapshot

\* the ids the state knows: of its live requests and of its log entries
KnownIds(st) == LiveIdsOf(st) \cup {st.log[k].id : k \in 1..Len(st.log)}

\* C11: request ids are assigned in creation order, strictly increasing and
\* never reused: the requests a step creates take the ids nextRequestId,
\* nextRequestId + 1, ... in the order of their creation, whether they are
\* queued, dropped or failed at admission; nextRequestId grows by exactly
\* the number of requests created, never decreases in any operation, and
\* stays above every id the state holds.
C11_MonotonicIds ==
    [][ /\ state'.nextRequestId >= state.nextRequestId
        /\ \A id \in KnownIds(state') : id < state'.nextRequestId
        /\ tick'.op = "stepSimulation" =>
               /\ state'.nextRequestId = state.nextRequestId + Len(tick'.admissions)
               /\ \A k \in 1..Len(tick'.admissions) :
                      tick'.admissions[k].id = state.nextRequestId + k - 1
               /\ Len(tick'.admissions) = arrivalCount(beginStep(state, tick'.dtMs), tick'.dtMs)
      ]_vars

\* a later step that created two requests, one queued and one refused at
\* admission
C11_Witness ==
    /\ AfterStep
    /\ Len(tick.admissions) >= 2
    /\ tick.admissions[1].id > 1
    /\ \E k \in 1..Len(tick.admissions) : tick.admissions[k].outcome = "failed"
    /\ \E k \in 1..Len(tick.admissions) : tick.admissions[k].outcome = "lb-queued"

RECURSIVE LbRequests(_, _)
\* the request records in the queues of the load balancers from i on
LbRequests(loadBalancers, i) ==
    IF i > Len(loadBalancers) THEN <<>>
    ELSE loadBalancers[i].queue \o LbRequests(loadBalancers, i + 1)

RECURSIVE ServerRequests(_, _)
\* the request records in flight and queued on the servers from i on
ServerRequests(servers, i) ==
    IF i > Len(servers) THEN <<>>
    ELSE servers[i].inflight \o servers[i].queue \o ServerRequests(servers, i + 1)

RECURSIVE RecordOf(_, _, _)
\* the record with this id among records, or else the given one
RecordOf(records, id, otherwise) ==
    IF records = <<>> THEN otherwise
    ELSE IF Head(records).id = id THEN Head(records)
    ELSE RecordOf(Tail(records), id, otherwise)

RECURSIVE SharedRecords(_, _)
\* the records of a list of prev as they are once the step has run: the
\* copy of the list ([...server.inflight], [...server.queue], [...lb.queue])
\* holds the same record objects, and the step assigns to their fields
SharedRecords(requests, after) ==
    IF requests = <<>> THEN <<>>
    ELSE <<RecordOf(after, Head(requests).id, Head(requests))>>
             \o SharedRecords(Tail(requests), after)

RECURSIVE SharedServers(_, _, _)
SharedServers(servers, i, after) ==
    IF i > Len(servers) THEN <<>>
    ELSE << [servers[i] EXCEPT !.inflight = SharedRecords(@, after),
                               !.queue = SharedRecords(@, after)] >>
             \o SharedServers(servers, i + 1, after)

RECURSIVE SharedLoadBalancers(_, _, _)
SharedLoadBalancers(loadBalancers, i, after) ==
    IF i > Len(loadBalancers) THEN <<>>
    ELSE << [loadBalancers[i] EXCEPT !.queue = SharedRecords(@, after)] >>
             \o SharedLoadBalancers(loadBalancers, i + 1, after)

\* the records of the requests of the step that returned st with history tr,
\* as the step left them: those that ended, then those still live
RecordsAfter(st, tr) ==
    tr.ended \o LbRequests(st.loadBalancers, 1) \o ServerRequests(st.servers, 1)

\* the value of the argument prev once stepSimulation(prev, dtMs) has
\* returned st: its own fields and lists are untouched (lines 108-119 copy
\* them), the request records its lists hold are the ones the step wrote to
prevAfter(prev, st, tr) ==
    [prev EXCEPT !.servers = SharedServers(@, 1, RecordsAfter(st, tr)),
                 !.loadBalancers = SharedLoadBalancers(@, 1, RecordsAfter(st, tr))]

\* C12: stepSimulation does not modify the state value passed to it, the
\* request records held in its load balancer queues, server queues and
\* in-flight lists included, and stepping once more from the same retained
\* value with the same dt yields the same successor state.
C12_PureTransition ==
    [][ tick'.op = "stepSimulation" =>
            /\ prevAfter(state, state', tick') = state
            /\ stepSimulation(prevAfter(state, state', tick'), tick'.dtMs) = state'
      ]_vars

(***************************************************************************)
(* The selection in isolation: the algorithms of algorithms.ts applied     *)
(* again and again to a fixed list of available servers, as lines 211-228  *)
(* of stepSimulation apply them.  tick keeps the inputs of the run (the    *)
(* algorithm and availableIds) and the history of the selections.          *)
(***************************************************************************)
Weights == {0, 1, 3}

SelectScenarios ==
    { [algorithmId |-> algorithm, workloadId |-> "steady",
       healthCheckIntervalMs |-> 150, recoveryDelayMs |-> 200,
       servers |-> << ServerConfig("srv-1", "UP", 120, w1, 1, 1),
                      ServerConfig("srv-2", "UP", 120, w2, 1, 1),
                      ServerConfig("srv-3", "UP", 120, w3, 1, 1) >>,
       loadBalancers |-> << LbConfig("lb-1", TRUE, 40, 60, 2, NoId) >>] :
      algorithm \in AlgorithmIds, w1 \in Weights, w2 \in Weights, w3 \in Weights }

RECURSIVE IdsAmong(_, _, _)
\* the ids of the servers whose index is in S, in list order
IdsAmong(servers, S, i) ==
    IF i > Len(servers) THEN <<>>
    ELSE (IF i \in S THEN <<servers[i].id>> ELSE <<>>) \o IdsAmong(servers, S, i + 1)

SelectInit ==
    /\ \E scenario \in SelectScenarios, rrIndex \in 0..MaxCursor :
           state = [buildStateFromScenario(scenario) EXCEPT !.rrIndex = rrIndex]
    /\ \E S \in SUBSET (1..Len(state.servers)) :
           tick = [op |-> "init", algorithm |-> getAlgorithm(state.algorithmId),
                   availableIds |-> IdsAmong(state.servers, S, 1),
                   cursors |-> <<>>, picks |-> <<>>, reasons |-> <<>>]
    /\ envOps = 0
    /\ timer = 0

\* lines 226-228: the cursor the selection returns becomes state.rrIndex
Selected(selection) ==
    /\ state' = [state EXCEPT
                    !.rrIndex = IF selection.rrIndex # Undef
                                THEN selection.rrIndex ELSE @,
                    !.nextRequestId = @ + 1]
    /\ tick' = [tick EXCEPT !.op = "select",
                            !.cursors = Append(@, state.rrIndex),
                            !.picks = Append(@, selection.serverId),
                            !.reasons = Append(@, selection.reason)]

\* lines 219-224: algorithm.select for the next request
Select ==
    /\ Len(tick.picks) < MaxPicks
    /\ Selected(select(tick.algorithm, state.servers, tick.availableIds,
                       state.rrIndex, state.nextRequestId))
    /\ UNCHANGED <<envOps, timer>>

SelectNext == Select

SelectSpec == SelectInit /\ [][SelectNext]_vars

\* the number of selections of server id among picks[from..to]
PickCount(picks, from, to, id) ==
    Cardinality({j \in from..to : picks[j] = id})

\* C13: with N servers that stay available and round-robin routing, the
\* selection made at cursor c is availableIds[c mod N], every selection
\* advances the cursor by one, and so any k*N consecutive selections give
\* each of the N servers exactly k selections.
C13_RoundRobinFairness ==
    (tick.op = "select" /\ tick.algorithm = "round-robin" /\ Len(tick.availableIds) > 0) =>
        LET N == Len(tick.availableIds)
            n == Len(tick.picks)
        IN /\ \A j \in 1..n :
                  /\ tick.picks[j] = tick.availableIds[(tick.cursors[j] % N) + 1]
                  /\ tick.cursors[j] = tick.cursors[1] + j - 1
           /\ state.rrIndex = tick.cursors[n] + 1
           /\ \A from \in 1..n, k \in 1..n :
                  from + k * N - 1 <= n =>
                      \A j \in 1..N :
                          PickCount(tick.picks, from, from + k * N - 1,
                                    tick.availableIds[j]) = k

\* round robin over three servers for at least three full rounds, starting
\* from a cursor that is not a multiple of three
C13_Witness ==
    /\ tick.op = "select"
    /\ tick.algorithm = "round-robin"
    /\ Len(tick.availableIds) = 3
    /\ Len(tick.picks) >= 10
    /\ tick.cursors[1] % 3 # 0

\* max(1, weight) of the server with this id
FlooredWeight(servers, id) == Max2(1, servers[FindById(servers, id)].weight)

\* the sum of max(1, weight) over the available servers
TotalWeight(servers, ids) ==
    SumSeq([j \in 1..Len(ids) |-> FlooredWeight(servers, ids[j])])

\* the sum of max(1, weight) over the available servers before the j-th
WeightBefore(servers, ids, j) ==
    SumSeq([i \in 1..(j - 1) |-> FlooredWeight(servers, ids[i])])

\* C14: under weighted round robin with a fixed available set and integer
\* weights, with S the sum of max(1, w_i): the selection at cursor c is the
\* server whose cumulative weight range contains the slot c mod S, the
\* cursor advances by one per selection, and so over any S consecutive
\* cursor values server i is selected exactly max(1, w_i) times.
C14_WeightedProportion ==
    (/\ tick.op = "select"
     /\ tick.algorithm = "weighted-round-robin"
     /\ Len(tick.availableIds) > 0) =>
        LET ids == tick.availableIds
            S == TotalWeight(state.servers, ids)
            n == Len(tick.picks)
        IN /\ \A j \in 1..n :
                  /\ tick.cursors[j] = tick.cursors[1] + j - 1
                  /\ \E i \in 1..Len(ids) :
                         /\ tick.picks[j] = ids[i]
                         /\ WeightBefore(state.servers, ids, i) <= tick.cursors[j] % S
                         /\ tick.cursors[j] % S < WeightBefore(state.servers, ids, i + 1)
           /\ \A from \in 1..n :
                  from + S - 1 <= n =>
                      \A i \in 1..Len(ids) :
                          PickCount(tick.picks, from, from + S - 1, ids[i])
                              = FlooredWeight(state.servers, ids[i])

\* weighted round robin over three servers of weights 0, 1 and 3 (in some
\* order), more than one full cycle of 5 slots, starting inside a cycle
C14_Witness ==
    /\ tick.op = "select"
    /\ tick.algorithm = "weighted-round-robin"
    /\ Len(tick.availableIds) = 3
    /\ {state.servers[i].weight : i \in 1..3} = {0, 1, 3}
    /\ Len(tick.picks) >= 8
    /\ tick.cursors[1] % 5 # 0

\* a request pulled from the queue of load balancer li of st, which no
\* server is available for, is routed by the given algorithm: only
\* totals.failed and the log change, and the drain budget is not used
EmptySetRouting(st, li, algorithm) ==
    LET req == [NewRequest(st.nextRequestId, st.timeMs) EXCEPT !.status = "lb-queued"]
        selection == select(algorithm, st.servers, <<>>, st.rrIndex, req.id)
        routed == route([st |-> st, tr |-> EmptyTrace("stepSimulation", 0)],
                        li, req, st, <<>>, selection)
    IN /\ selection = [serverId |-> NoId, rrIndex |-> Undef,
                       reason |-> "no available servers"]
       /\ routed.st =
              [st EXCEPT
                  !.totals.failed = @ + 1,
                  !.log = pushLog(@, LogEntry(req.id, st.timeMs, "failed",
                              Message("failed", selection.reason, Undef),
                              st.loadBalancers[li].id, NoId))]
       /\ routed.tr.routedThisTick = 0
       /\ routed.tr.ended = << [req EXCEPT !.status = "failed"] >>

\* C15: when no server is available, each of the five algorithms returns
\* no server id and the reason "no available servers"; the engine then
\* marks the request failed with this reason, adds one to totals.failed,
\* writes one failed log entry, leaves every server (and everything else)
\* unchanged and goes on with the tick: the request is in no container,
\* it did not use the drain budget, and the step ends as every step does.
C15_EmptySetFails ==
    AfterStep =>
        /\ \A li \in 1..Len(state.loadBalancers), algorithm \in AlgorithmIds :
               EmptySetRouting(state, li, algorithm)
        /\ \A k \in 1..Len(tick.drains) :
               tick.drains[k].availableIds = <<>> =>
                   /\ tick.drains[k].serverId = NoId
                   /\ tick.drains[k].outcome = "failed"
                   /\ tick.drains[k].reason = "no available servers"
                   /\ tick.drains[k].counted = 0
                   /\ \E j \in 1..Len(state.log) :
                          state.log[j] = LogEntry(tick.drains[k].id, state.timeMs, "failed",
                                             Message("failed", "no available servers", Undef),
                                             tick.drains[k].lbId, NoId)
                   /\ FailedLogEntries(tick.drains[k].id) = 1
                   /\ tick.drains[k].id \notin LiveIdsOf(state)
                   /\ \E j \in 1..Len(tick.ended) :
                          /\ tick.ended[j].id = tick.drains[k].id
                          /\ tick.ended[j].status = "failed"
        /\ state.metrics[Len(state.metrics)].timeMs = state.timeMs

\* a step in which a request found no available server and failed, and the
\* drain went on to the next request of the queue
C15_Witness ==
    /\ AfterStep
    /\ \E k \in 1..Len(tick.drains) :
           /\ tick.drains[k].availableIds = <<>>
           /\ tick.drains[k].outcome = "failed"
           /\ k < Len(tick.drains)
    /\ state.totals.failed > 0

(***************************************************************************)
(* The arrival carry over many steps: stepSimulation under either          *)
(* workload, with no load balancer up, so that every request created is    *)
(* failed at admission and the state stays small.                          *)
(***************************************************************************)
ArrivalScenarios ==
    { [algorithmId |-> "round-robin", workloadId |-> workloadId,
       healthCheckIntervalMs |-> 150, recoveryDelayMs |-> 200,
       servers |-> << ServerConfig("srv-1", "UP", 120, 1, 1, 1) >>,
       loadBalancers |-> << LbConfig("lb-1", FALSE, 40, 60, 2, NoId) >>] :
      workloadId \in {"steady", "burst"} }

ArrivalInit ==
    /\ \E scenario \in ArrivalScenarios : state = buildStateFromScenario(scenario)
    /\ tick = EmptyTrace("init", 0)
    /\ envOps = 0
    /\ timer = 0

ArrivalStep ==
    \E dtMs \in Dts :
        /\ state.timeMs + dtMs <= MaxArrivalTime
        /\ Stepped(stepRun(state, dtMs))
        /\ UNCHANGED <<envOps, timer>>

ArrivalNext == ArrivalStep

ArrivalSpec == ArrivalInit /\ [][ArrivalNext]_vars

\* state.metrics holds one point per step, stamped with the time after it:
\* the time before step k
TimeBefore(metrics, k) == IF k = 1 THEN 0 ELSE metrics[k - 1].timeMs

\* the sum over the steps so far of rate * dt, in 1/1000 request
ExpectedSoFar(st) ==
    SumSeq([k \in 1..Len(st.metrics) |->
               rateRps(st.workloadId, st.metrics[k].timeMs)
                   * (st.metrics[k].timeMs - TimeBefore(st.metrics, k))])

\* C16: after any number of steps the pending remainder is at least 0 and
\* less than 1, and the number of requests created so far is the floor of
\* the accumulated expected arrivals (the sum over the steps of
\* rate * dt / 1000).
C16_ArrivalCarry ==
    AfterStep =>
        /\ state.pendingRemainder[1] = 0
        /\ state.nextRequestId - 1 = ExpectedSoFar(state) \div 1000

\* a health-snapshot refresh is due in the step from st to time now
RefreshDue(st, now) ==
    \E li \in 1..Len(st.loadBalancers) :
        now - st.loadBalancers[li].lastHealthCheckMs >= st.healthCheckIntervalMs

\* C17: a step moves a DOWN server to UP exactly when a health-snapshot
\* refresh fires in it and now - lastHealthChangeMs >= recoveryDelayMs, and
\* then sets lastHealthChangeMs to now; in a step with no refresh a DOWN
\* server stays DOWN however long it has been down; and a step makes no
\* other change of health: it never moves a server to DOWN or to SLOW.
C17_RecoveryAtCadence ==
    [][ tick'.op = "stepSimulation" =>
            \A si \in 1..Len(state.servers) :
                LET before == state.servers[si]
                    after == state'.servers[si]
                    recovers ==
                        /\ before.health = "DOWN"
                        /\ RefreshDue(state, state'.timeMs)
                        /\ state'.timeMs - before.lastHealthChangeMs
                               >= state.recoveryDelayMs
                IN /\ (tick'.refreshed # {}) = RefreshDue(state, state'.timeMs)
                   /\ IF recovers
                      THEN /\ after.health = "UP"
                           /\ after.lastHealthChangeMs = state'.timeMs
                           /\ after.id \in tick'.recovered
                      ELSE /\ after.health = before.health
                           /\ after.lastHealthChangeMs = before.lastHealthChangeMs
                           /\ after.id \notin tick'.recovered
      ]_vars

\* a step in which a refresh fired and a DOWN server recovered
C17_Witness ==
    /\ AfterStep
    /\ tick.refreshed # {}
    /\ \E si \in 1..Len(state.servers) :
           /\ state.servers[si].id \in tick.recovered
           /\ state.servers[si].health = "UP"
           /\ state.servers[si].lastHealthChangeMs = state.timeMs

\* a step with no refresh that left a server DOWN although it had been down
\* for recoveryDelayMs or longer
C17_WitnessStaysDown ==
    /\ AfterStep
    /\ tick.refreshed = {}
    /\ \E si \in 1..Len(state.servers) :
           /\ state.servers[si].health = "DOWN"
           /\ state.timeMs - state.servers[si].lastHealthChangeMs >= state.recoveryDelayMs

\* C18: after every step, for every load balancer, timeMs -
\* lastHealthCheckMs is less than the health-check interval; a step
\* refreshes a load balancer only when at least one interval of simulated
\* time has passed since its last refresh, and lastHealthCheckMs is the
\* time of that refresh, so two refreshes of the same load balancer are
\* never less than one interval apart.
C18_StalenessBound ==
    [][ tick'.op = "stepSimulation" =>
            \A li \in 1..Len(state.loadBalancers) :
                LET before == state.loadBalancers[li]
                    after == state'.loadBalancers[li]
                IN /\ 0 <= state'.timeMs - after.lastHealthCheckMs
                   /\ state'.timeMs - after.lastHealthCheckMs < state'.healthCheckIntervalMs
                   /\ IF after.id \in tick'.refreshed
                      THEN /\ after.lastHealthCheckMs = state'.timeMs
                           /\ state'.timeMs - before.lastHealthCheckMs
                                  >= state.healthCheckIntervalMs
                      ELSE after.lastHealthCheckMs = before.lastHealthCheckMs
      ]_vars

\* a step that refreshed a load balancer for the second time
C18_Witness ==
    /\ AfterStep
    /\ \E li \in 1..Len(state.loadBalancers) :
           /\ state.loadBalancers[li].id \in tick.refreshed
           /\ state.loadBalancers[li].lastHealthCheckMs >= 2 * state.healthCheckIntervalMs

\* the ids of the requests that failed in the step traced by tr, at admission
\* or at routing
FailedIds(tr) ==
    IdsWithOutcome(tr.admissions, "failed") \cup IdsWithOutcome(tr.drains, "failed")

\* C19: every request that fails in a step (dropped at admission, no
\* leader, no routable server, chosen server not found or unavailable,
\* chosen server full) adds one to exactly one of totals.failed,
\* totals.droppedLb and totals.droppedServer, exactly once, and has exactly
\* one log entry with status failed carrying its id.
C19_FailureAccounting ==
    [][ tick'.op = "stepSimulation" =>
            /\ FailureTotal' = FailureTotal + Cardinality(FailedIds(tick'))
            /\ Cardinality(FailedIds(tick'))
                   = CountWithOutcome(tick'.admissions, "failed")
                         + CountWithOutcome(tick'.drains, "failed")
            /\ state'.totals.failed >= state.totals.failed
            /\ state'.totals.droppedLb >= state.totals.droppedLb
            /\ state'.totals.droppedServer >= state.totals.droppedServer
            /\ \A id \in FailedIds(tick') : FailedLogEntries(id)' = 1
      ]_vars

\* The routing loop selects among the servers it has just found available,
\* and an available server has a free slot or a free queue place: the
\* branches "server not found", "server unavailable" and "server queue full
\* (503)" are never taken, and totals.droppedServer stays 0.
DispatchNeverFails ==
    /\ state.totals.droppedServer = 0
    /\ AfterStep =>
           \A k \in 1..Len(tick.drains) :
               tick.drains[k].reason \notin
                   {"server not found", "server unavailable", "server queue full (503)"}

\* a step in which one request was dropped at admission and another failed
\* at routing, no server being available
C19_Witness ==
    /\ AfterStep
    /\ \E k \in 1..Len(tick.admissions) :
           /\ tick.admissions[k].outcome = "failed"
           /\ tick.admissions[k].reason = "lb queue full (503)"
    /\ \E k \in 1..Len(tick.drains) : tick.drains[k].outcome = "failed"
    /\ state.totals.droppedLb > 0
    /\ state.totals.failed > 0

\* ---------------------------------------------------------------------
\* C20  Live containers

\* every record of the list has this status
AllWithStatus(requests, status) ==
    \A j \in 1..Len(requests) : requests[j].status = status

\* the records held by the LB queues, the in-flight lists and the server
\* queues, one entry per place held
HeldRecords == LbRequests(state.loadBalancers, 1) \o ServerRequests(state.servers, 1)

\* C20: after every step no completed or failed request is left in an LB
\* queue, a server queue or an in-flight list; no request id is held twice,
\* within a container or across containers; and the status of a held request
\* is that of its container: lb-queued in an LB queue, server-queued in a
\* server queue, processing in an in-flight list.
C20_LiveContainers ==
    AfterStep =>
        /\ \A j \in 1..Len(HeldRecords) :
               HeldRecords[j].status \notin {"completed", "failed", "arrived"}
        /\ \A j, k \in 1..Len(HeldRecords) :
               j # k => HeldRecords[j].id # HeldRecords[k].id
        /\ \A i \in 1..Len(state.loadBalancers) :
               AllWithStatus(state.loadBalancers[i].queue, "lb-queued")
        /\ \A i \in 1..Len(state.servers) :
               /\ AllWithStatus(state.servers[i].queue, "server-queued")
               /\ AllWithStatus(state.servers[i].inflight, "processing")

\* after a step requests are held in an LB queue, in a server queue and in
\* flight, while others have completed and failed and those that ended in
\* this step are held nowhere
C20_Witness ==
    /\ AfterStep
    /\ TotalLbQueued > 0
    /\ TotalServerQueued > 0
    /\ TotalInflight > 0
    /\ Len(tick.ended) > 0
    /\ state.totals.completed > 0
    /\ FailureTotal > 0
    /\ \A j \in 1..Len(tick.ended) : tick.ended[j].id \notin LiveIds

\* ---------------------------------------------------------------------
\* C24  Bounded history
\*
\* The log holds 260 entries and the metrics 160 points: the trimming shows
\* only in a long run.  In HistorySpec the driver's timer calls
\* stepSimulation with one dtMs for the first WarmSteps steps, which leaves
\* the metrics three points short of their capacity, and with any dtMs
\* after them.

WarmDtMs == 100
WarmSteps == METRICS_LIMIT - 3

HistoryInit ==
    /\ \E scenario \in Scenarios : state = buildStateFromScenario(scenario)
    /\ tick = EmptyTrace("init", 0)
    /\ envOps = 0
    /\ timer = 0

HistoryStep ==
    \E dtMs \in Dts :
        /\ state.timeMs < WarmDtMs * WarmSteps => dtMs = WarmDtMs
        /\ state.timeMs + dtMs <= MaxHistoryTime
        /\ Stepped(stepRun(state, dtMs))
        /\ UNCHANGED <<envOps, timer>>

HistoryNext == HistoryStep

HistorySpec == HistoryInit /\ [][HistoryNext]_vars

\* the last n entries of s
LastN(s, n) == SubSeq(s, Len(s) - n + 1, Len(s))

\* C24: after every step the log has at most 260 entries and the metrics at
\* most 160 points; the step appends exactly one metrics point, stamped with
\* the new timeMs; and what is kept of the metrics and of the log is the
\* most recent part of what there was, in its original order, followed by
\* what the step wrote: entries are discarded from the oldest end, and only
\* when the capacity is exceeded.
C24_BoundedHistory ==
    [][ tick'.op = "stepSimulation" =>
            /\ Len(state'.log) <= LOG_LIMIT
            /\ Len(state'.metrics) <= METRICS_LIMIT
            /\ Len(state'.metrics) > 0
            /\ state'.metrics[Len(state'.metrics)].timeMs = state'.timeMs
            /\ LET kept == Len(state'.metrics) - 1
               IN /\ kept = Min({Len(state.metrics), METRICS_LIMIT - 1})
                  /\ SubSeq(state'.metrics, 1, kept) = LastN(state.metrics, kept)
            /\ \E kept \in 0..Len(state.log) :
                   /\ kept <= Len(state'.log)
                   /\ SubSeq(state'.log, 1, kept) = LastN(state.log, kept)
                   /\ \A j \in (kept + 1)..Len(state'.log) :
                          state'.log[j].timeMs = state'.timeMs
                   /\ kept < Len(state.log) => Len(state'.log) = LOG_LIMIT
      ]_vars

\* a step that left the log and the metrics at their capacities, the
\* oldest metrics points and log entries of the run discarded and new log
\* entries written
C24_Witness ==
    /\ AfterStep
    /\ Len(state.log) = LOG_LIMIT
    /\ Len(state.metrics) = METRICS_LIMIT
    /\ state.metrics[1].timeMs > WarmDtMs
    /\ state.log[1].timeMs > WarmDtMs
    /\ state.log[Len(state.log)].timeMs = state.timeMs

\* ---------------------------------------------------------------------
\* C25  Leader election rule

\* C25: if the load balancer leaderLbId names exists and is up when a step
\* starts, the step leaves it leader, whether or not a load balancer earlier
\* in the list is up; otherwise the step makes the first up load balancer
\* in list order the leader, and leaderLbId null if none is up.
C25_LeaderElection ==
    [][ tick'.op = "stepSimulation" =>
            LET lbs == state.loadBalancers
                current == FindById(lbs, state.leaderLbId)
                up == {i \in 1..Len(lbs) : lbs[i].isUp}
            IN /\ tick'.leader = state'.leaderLbId
               /\ IF current # 0 /\ lbs[current].isUp
                  THEN state'.leaderLbId = state.leaderLbId
                  ELSE IF up = {}
                  THEN state'.leaderLbId = Null
                  ELSE state'.leaderLbId = lbs[Min(up)].id
      ]_vars

\* a step has left the second load balancer leader while the first is up
C25_Witness ==
    /\ AfterStep
    /\ state.loadBalancers[1].isUp
    /\ state.loadBalancers[2].isUp
    /\ state.leaderLbId = state.loadBalancers[2].id
    /\ tick.leader = state.loadBalancers[2].id

\* the leader was down or absent when the step started and the step has
\* elected the first up load balancer, which is not the first of the list
C25_WitnessReplaced ==
    /\ AfterStep
    /\ ~state.loadBalancers[1].isUp
    /\ state.loadBalancers[2].isUp
    /\ state.leaderLbId = state.loadBalancers[2].id

\* ---------------------------------------------------------------------
\* C30  LB queue is FIFO

RECURSIVE IdsOfLb(_, _)
\* the ids of the records of this load balancer, in order
IdsOfLb(records, lbId) ==
    IF records = <<>> THEN <<>>
    ELSE (IF Head(records).lbId = lbId THEN <<Head(records).id>> ELSE <<>>)
             \o IdsOfLb(Tail(records), lbId)

StrictlyIncreasing(ids) == \A j, k \in 1..Len(ids) : j < k => ids[j] < ids[k]

\* C30: every LB queue always holds request ids in strictly increasing
\* order from head to tail, and a step drains a load balancer's queue from
\* the head: the requests it found in the queue followed by those it
\* admitted are those it drained, in order, followed by those it left in
\* the queue, so no request leaves after one admitted later.
C30_LbQueueFifo ==
    [][ /\ \A i \in 1..Len(state'.loadBalancers) :
               StrictlyIncreasing(Ids(state'.loadBalancers[i].queue))
        /\ tick'.op = "stepSimulation" =>
               \A i \in 1..Len(state.loadBalancers) :
                   LET lbId == state.loadBalancers[i].id
                       admitted == SelectOutcome(tick'.admissions, "lb-queued")
                   IN /\ Ids(state.loadBalancers[i].queue)
                             \o (IF lbId = tick'.leader THEN admitted ELSE <<>>)
                          = IdsOfLb(tick'.drains, lbId)
                                \o Ids(state'.loadBalancers[i].queue)
                      /\ StrictlyIncreasing(IdsOfLb(tick'.drains, lbId))
                      /\ \A k \in 1..Len(tick'.admissions) :
                             tick'.admissions[k].outcome = "lb-queued"
                                 => tick'.admissions[k].lbId = tick'.leader
      ]_vars

\* a step has drained a request admitted in an earlier step, admitted
\* another and left two or more requests in the leader's queue
C30_Witness ==
    /\ AfterStep
    /\ \E i \in 1..Len(state.loadBalancers) :
           /\ state.loadBalancers[i].id = tick.leader
           /\ Len(state.loadBalancers[i].queue) >= 2
    /\ Len(tick.drains) > 0
    /\ \E k \in 1..Len(tick.admissions) :
           /\ tick.admissions[k].outcome = "lb-queued"
           /\ tick.drains[1].id < tick.admissions[k].id
           /\ \A j \in 1..Len(tick.admissions) :
                  tick.drains[1].id # tick.admissions[j].id

\* ---------------------------------------------------------------------
\* C26  Per-server start order

RECURSIVE IdsOnServer(_, _, _)
\* the ids of the drain records that put a request on this server with the
\* given outcome, in order
IdsOnServer(drains, serverId, outcome) ==
    IF drains = <<>> THEN <<>>
    ELSE (IF Head(drains).serverId = serverId /\ Head(drains).outcome = outcome
          THEN <<Head(drains).id>> ELSE <<>>)
             \o IdsOnServer(Tail(drains), serverId, outcome)

RECURSIVE PromotedOn(_, _)
\* the ids promoted on this server, in order
PromotedOn(promotions, serverId) ==
    IF promotions = <<>> THEN <<>>
    ELSE (IF Head(promotions).serverId = serverId THEN <<Head(promotions).id>> ELSE <<>>)
             \o PromotedOn(Tail(promotions), serverId)

\* the server queue is promoted from its head: what a step found in the
\* queue followed by what it queued is what it promoted, in order, followed
\* by what it left in the queue
PromotedFromHead(si) ==
    LET serverId == state.servers[si].id
    IN Ids(state.servers[si].queue) \o IdsOnServer(tick'.drains, serverId, "server-queued")
           = PromotedOn(tick'.promotions, serverId) \o Ids(state'.servers[si].queue)

\* no request goes straight into processing on a server on which another
\* is waiting in the queue
NoOvertaking(drains) ==
    \A k \in 1..Len(drains) :
        drains[k].outcome = "processing" => drains[k].queueLength = 0

\* the first half of C26: the server queue is promoted oldest-first
C26_PromotionOldestFirst ==
    [][ tick'.op = "stepSimulation" =>
            \A si \in 1..Len(state.servers) : PromotedFromHead(si) ]_vars

\* C26: on each server requests begin processing in the order in which they
\* were dispatched to it: the server queue is promoted oldest-first, and a
\* request dispatched later never starts processing before one that is
\* already waiting in that server's queue.
C26_StartOrder ==
    [][ tick'.op = "stepSimulation" =>
            /\ \A si \in 1..Len(state.servers) : PromotedFromHead(si)
            /\ NoOvertaking(tick'.drains)
      ]_vars

\* ---------------------------------------------------------------------
\* C29  Per-LB health interval
\*
\* The page's "Health interval" slider sets a load balancer's
\* healthIntervalMs; IntervalSpec is the engine with that edit.

\* values of the slider (the scenarios' healthCheckIntervalMs lies between)
HealthIntervals == {50, 300}

\* updateLoadBalancer(lb.id, { healthIntervalMs: Number(event.target.value) })
UpdateHealthInterval ==
    \E li \in 1..Len(state.loadBalancers), healthIntervalMs \in HealthIntervals :
        /\ envOps < MaxEnvOps
        /\ state.loadBalancers[li].healthIntervalMs # healthIntervalMs
        /\ state' = [state EXCEPT !.loadBalancers[li].healthIntervalMs = healthIntervalMs]
        /\ tick' = EmptyTrace("setState", 0)
        /\ envOps' = envOps + 1
        /\ UNCHANGED timer

IntervalNext == Step \/ UpdateHealthInterval

IntervalSpec == Init /\ [][IntervalNext]_vars

\* C29: a step refreshes the snapshot of a load balancer exactly when the
\* load balancer's own healthIntervalMs has passed since its last check: it
\* is not refreshed before lastHealthCheckMs + healthIntervalMs, and is
\* refreshed by the first step at or after it, which sets lastHealthCheckMs
\* to the new timeMs.
C29_PerLbInterval ==
    [][ tick'.op = "stepSimulation" =>
            \A li \in 1..Len(state.loadBalancers) :
                LET lb == state.loadBalancers[li]
                    due == state'.timeMs - lb.lastHealthCheckMs >= lb.healthIntervalMs
                IN /\ (lb.id \in tick'.refreshed) <=> due
                   /\ state'.loadBalancers[li].lastHealthCheckMs =
                          IF due THEN state'.timeMs ELSE lb.lastHealthCheckMs
      ]_vars

\* ---------------------------------------------------------------------
\* C28  Stale snapshot blocks re-entry

\* C28: a step in which a load balancer's snapshot is not refreshed leaves
\* the snapshot as it was, and the leader dispatches no request to a server
\* its snapshot records as unavailable, whatever the server's health has
\* become since: such a server is not among the ids offered to routing and
\* is not the server chosen.
C28_StaleSnapshotBlocks ==
    [][ tick'.op = "stepSimulation" =>
            /\ \A li \in 1..Len(state.loadBalancers) :
                   state.loadBalancers[li].id \notin tick'.refreshed =>
                       state'.loadBalancers[li].healthSnapshot
                           = state.loadBalancers[li].healthSnapshot
            /\ \A k \in 1..Len(tick'.drains) :
                   LET d == tick'.drains[k]
                       lb == state.loadBalancers[FindById(state.loadBalancers, d.lbId)]
                   IN /\ \A i \in 1..Len(d.view) :
                             ~d.view[i].snapshot =>
                                 /\ d.serverId # d.view[i].id
                                 /\ \A j \in 1..Len(d.availableIds) :
                                        d.availableIds[j] # d.view[i].id
                      /\ d.lbId \notin tick'.refreshed =>
                             \A i \in 1..Len(state.servers) :
                                 LET id == state.servers[i].id
                                 IN (id \notin DOMAIN lb.healthSnapshot
                                         \/ ~lb.healthSnapshot[id])
                                        => d.serverId # id
      ]_vars

\* a step without refresh in which the leader drained a request while a
\* server that is UP, with room and no circuit breaker, was unavailable in
\* its snapshot
C28_Witness ==
    /\ AfterStep
    /\ tick.refreshed = {}
    /\ \E k \in 1..Len(tick.drains) :
           \E i \in 1..Len(tick.drains[k].view) :
               LET v == tick.drains[k].view[i]
               IN /\ ~v.snapshot
                  /\ v.health = "UP"
                  /\ v.open
                  /\ v.circuitBreakerUntilMs <= state.timeMs

\* ---------------------------------------------------------------------
\* C23  EWMA convergence
\*
\* EwmaSpec applies the update of lines 375-377 to a server whose every
\* completion records the same latency: state is the scenario, its server
\* counting the completions, and tick holds the latency, the initial
\* average and the average in binary64.

BaseLatencies == {100, 110, 200, 220}
Latencies == {50, 100, 150, 250, 500, 750, 1000}

EwmaScenarios ==
    { [algorithmId |-> "ewma", workloadId |-> "steady",
       healthCheckIntervalMs |-> 150, recoveryDelayMs |-> 200,
       servers |-> << ServerConfig("srv-1", "UP", baseLatencyMs, 1, 1, 1) >>,
       loadBalancers |-> << LbConfig("lb-1", TRUE, 40, 60, 2, "ewma") >>] :
      baseLatencyMs \in BaseLatencies }

EwmaInit ==
    /\ \E scenario \in EwmaScenarios : state = buildStateFromScenario(scenario)
    /\ \E latencyMs \in Latencies :
           tick = [op |-> "init", latencyMs |-> latencyMs,
                   initial |-> state.servers[1].baseLatencyMs,
                   ewmaLatencyMs |-> << state.servers[1].baseLatencyMs, 0, 0, 0 >>]
    /\ envOps = 0
    /\ timer = 0

\* lines 373-377: a completion of latency tick.latencyMs on the server
EwmaComplete ==
    /\ state.servers[1].totalProcessed < MaxCompletions
    /\ state' = [state EXCEPT !.servers[1].totalProcessed = @ + 1,
                              !.totals.completed = @ + 1]
    /\ tick' = [tick EXCEPT !.op = "complete",
                            !.ewmaLatencyMs = ewmaUpdate(tick.latencyMs, @)]
    /\ UNCHANGED <<envOps, timer>>

EwmaNext == EwmaComplete

EwmaSpec == EwmaInit /\ [][EwmaNext]_vars

RECURSIVE IntPow(_, _)
IntPow(k, n) == IF n = 0 THEN 1 ELSE k * IntPow(k, n - 1)

RECURSIVE Scaled(_, _, _)
\* k^n * x, on limbs
Scaled(x, k, n) ==
    IF n = 0 THEN x
    ELSE Scaled(Carried(<< k * x[1], k * x[2], k * x[3], k * x[4] >>, 4, 0), k, n - 1)

\* |x - L| for an integer L, on limbs
AbsDiff(x, L) ==
    IF x[1] >= L THEN << x[1] - L, x[2], x[3], x[4] >>
    ELSE Carried(<< L - x[1], 0 - x[2], 0 - x[3], 0 - x[4] >>, 4, 0)

\* x <= y, on limbs
LimbLeq(x, y) ==
    \/ x[1] < y[1]
    \/ x[1] = y[1] /\ x[2] < y[2]
    \/ x[1] = y[1] /\ x[2] = y[2] /\ x[3] < y[3]
    \/ x[1] = y[1] /\ x[2] = y[2] /\ x[3] = y[3] /\ x[4] <= y[4]

\* the completions so far, 5^n * |ewmaLatencyMs - L| and 4^n * |initial - L|
Completions == state.servers[1].totalProcessed
ScaledDistance == Scaled(AbsDiff(tick.ewmaLatencyMs, tick.latencyMs), 5, Completions)
ScaledInitialDistance ==
    IntPow(4, Completions)
        * (IF tick.initial >= tick.latencyMs THEN tick.initial - tick.latencyMs
           ELSE tick.latencyMs - tick.initial)

DriverDts == {250, 500, 1000, 2000, 4000}

\* scenarios[rr-homogeneous]
ScenarioRrHomogeneous ==
    [algorithmId |-> "round-robin", workloadId |-> "steady",
     healthCheckIntervalMs |-> 3000, recoveryDelayMs |-> 8000,
     servers |-> << ServerConfig("srv-1", "UP", 100, 1, 10, 12),
                    ServerConfig("srv-2", "UP", 100, 1, 10, 12),
                    ServerConfig("srv-3", "UP", 100, 1, 10, 12) >>,
     loadBalancers |-> << LbConfig("lb-1", TRUE, 40, 60, 80, "round-robin") >>]

\* scenarios[rr-slow-server]
ScenarioRrSlowServer ==
    [algorithmId |-> "round-robin", workloadId |-> "steady",
     healthCheckIntervalMs |-> 3000, recoveryDelayMs |-> 8000,
     servers |-> << ServerConfig("srv-1", "UP", 100, 1, 10, 12),
                    ServerConfig("srv-2", "SLOW", 200, 1, 10, 12),
                    ServerConfig("srv-3", "UP", 100, 1, 10, 12) >>,
     loadBalancers |-> << LbConfig("lb-1", TRUE, 40, 60, 80, "round-robin") >>]

ScenarioInit ==
    /\ \E scenario \in {ScenarioRrHomogeneous, ScenarioRrSlowServer} :
           state = buildStateFromScenario(scenario)
    /\ \E dtMs \in DriverDts : tick = EmptyTrace("init", dtMs)
    /\ envOps = 0
    /\ timer = 0

ScenarioStep ==
    /\ state.timeMs + tick.dtMs <= MaxScenarioTime
    /\ Stepped(stepRun(state, tick.dtMs))
    /\ UNCHANGED <<envOps, timer>>

ScenarioNext == ScenarioStep

ScenarioSpec == ScenarioInit /\ [][ScenarioNext]_vars

\* three servers, all UP, with one configuration
IdenticalServers ==
    /\ Len(state.servers) = 3
    /\ \A i \in 1..Len(state.servers) :
           /\ state.servers[i].health = "UP"
           /\ state.servers[i].baseLatencyMs = state.servers[1].baseLatencyMs
           /\ state.servers[i].maxConcurrentRequests = state.servers[1].maxConcurrentRequests
           /\ state.servers[i].serverQueueSize = state.servers[1].serverQueueSize

\* C21: Scenario A.  With 3 identical UP servers, one leader using round
\* robin and the steady arrival rate (20 req/s, within the 40 connections
\* per second of the load balancer), after 10 simulated seconds of steps
\* each server's totalProcessed is within 1 of every other server's and the
\* total server queue depth is 0.
C21_ScenarioA ==
    ( /\ AfterStep
      /\ IdenticalServers
      /\ state.timeMs = 10000 )
        => /\ \A i, j \in 1..Len(state.servers) :
                  state.servers[i].totalProcessed - state.servers[j].totalProcessed <= 1
           /\ TotalServerQueued = 0

\* ---------------------------------------------------------------------
\* C22  Scenario C

\* the recorded latencies (latencyMs = endTimeMs - arrivalTimeMs) of the
\* requests server si completed in the step
LatenciesOf(si) ==
    LET on == { k \in 1..Len(tick.completions) :
                    tick.completions[k].serverId = state.servers[si].id }
    IN [k \in 1..Len(tick.completions) |->
           IF k \in on THEN tick.completions[k].latencyMs ELSE 0]

CompletedOn(si) ==
    Cardinality({ k \in 1..Len(tick.completions) :
                      tick.completions[k].serverId = state.servers[si].id })

\* server si has had more requests than slots: requests wait in its queue
Saturated(si) == Len(state.servers[si].queue) > 0

\* C22: Scenario C.  For a server in state SLOW with slowMultiplier 1.8 and
\* alpha 0.2, kept at saturation, the average recorded completion latency
\* of the requests it completes strictly exceeds 1.8 times its
\* baseLatencyMs.
C22_ScenarioC ==
    AfterStep =>
        \A si \in 1..Len(state.servers) :
            ( /\ state.servers[si].health = "SLOW"
              /\ state.servers[si].slowMultiplier = 18
              /\ state.ewmaAlpha = 2
              /\ Saturated(si)
              /\ CompletedOn(si) > 0 )
                => 10 * SumSeq(LatenciesOf(si))
                       > 18 * state.servers[si].baseLatencyMs * CompletedOn(si)

\* ---------------------------------------------------------------------
\* C27  server-queue liveness

\* the step has promoted a request from the queue of server si
PromotedOnServer(si) ==
    /\ AfterStep
    /\ si \in 1..Len(state.servers)
    /\ \E k \in 1..Len(tick.promotions) :
           tick.promotions[k].serverId = state.servers[si].id

\* the step has completed a request of server si
CompletedOnServer(si) ==
    /\ AfterStep
    /\ si \in 1..Len(state.servers)
    /\ \E k \in 1..Len(tick.completions) :
           tick.completions[k].serverId = state.servers[si].id

\* requests wait in the queue of server si, which has a slot to give
WaitingOn(si) ==
    /\ si \in 1..Len(state.servers)
    /\ state.servers[si].maxConcurrentRequests >= 1
    /\ Len(state.servers[si].queue) > 0

\* C27: server-queue liveness.  While stepping continues with dt > 0 and the
\* in-flight requests of a server with maxConcurrentRequests >= 1 keep
\* completing, a request in the server's queue eventually starts
\* processing: the queue is promoted from its head, so whenever requests
\* wait in it a later step promotes one (or the queue has been emptied).
C27_ServerQueueLiveness ==
    \A si \in 1..3 :
        ([]<>CompletedOnServer(si))
            => (WaitingOn(si) ~> (PromotedOnServer(si) \/ ~WaitingOn(si)))

\* ---------------------------------------------------------------------
\* C31  non-leader load balancers are inert

\* C31: a step never admits into, drains from, or records drops on a load
\* balancer that is not the leader for that step; its queue contents and
\* droppedRequests are unchanged by the step.
C31_NonLeaderInert ==
    [][ tick'.op = "stepSimulation" =>
            \A i \in 1..Len(state.loadBalancers) :
                state.loadBalancers[i].id # tick'.leader =>
                    /\ state'.loadBalancers[i].queue = state.loadBalancers[i].queue
                    /\ state'.loadBalancers[i].droppedRequests
                           = state.loadBalancers[i].droppedRequests
                    /\ \A k \in 1..Len(tick'.admissions) :
                           tick'.admissions[k].lbId # state.loadBalancers[i].id
                    /\ \A k \in 1..Len(tick'.drains) :
                           tick'.drains[k].lbId # state.loadBalancers[i].id
      ]_vars

\* a step with arrivals has left alone the waiting requests of a load
\* balancer that is up but not the leader
C31_Witness ==
    /\ AfterStep
    /\ Len(tick.admissions) > 0
    /\ \E i \in 1..Len(state.loadBalancers) :
           /\ state.loadBalancers[i].id # tick.leader
           /\ state.loadBalancers[i].isUp
           /\ Len(state.loadBalancers[i].queue) > 0

\* ---------------------------------------------------------------------
\* C40  P2C pair distinctness
\*
\* PairSpec applies pickDeterministicPair to a candidate count and to the
\* request ids 0, 1, 2, ... in turn; tick keeps the arguments and the pair.

PairInit ==
    /\ state = [nextRequestId |-> 0]
    /\ \E length \in 0..MaxLength :
           tick = [op |-> "init", length |-> length, requestId |-> Undef,
                   pair |-> <<0, 0>>]
    /\ envOps = 0
    /\ timer = 0

\* const [a, b] = pickDeterministicPair(candidates.length, requestId)
PickPair ==
    /\ state.nextRequestId <= MaxRequestId
    /\ tick' = [tick EXCEPT !.op = "pick",
                            !.requestId = state.nextRequestId,
                            !.pair = pickDeterministicPair(tick.length,
                                                           state.nextRequestId)]
    /\ state' = [state EXCEPT !.nextRequestId = @ + 1]
    /\ UNCHANGED <<envOps, timer>>

PairNext == PickPair

PairSpec == PairInit /\ [][PairNext]_vars

\* C40: for every candidate count n >= 2 and every request id r >= 0,
\* pickDeterministicPair returns two indices in 0..n-1 that are different
\* from each other; for n <= 1 it returns [0, 0].
C40_PairDistinct ==
    tick.op = "pick" =>
        /\ tick.length >= 2 =>
               /\ tick.pair[1] \in 0..(tick.length - 1)
               /\ tick.pair[2] \in 0..(tick.length - 1)
               /\ tick.pair[1] # tick.pair[2]
        /\ tick.length <= 1 => tick.pair = <<0, 0>>

\* a pair whose second index is not the neighbour of the first, and whose
\* second index has wrapped around
C40_Witness ==
    /\ tick.op = "pick"
    /\ tick.length >= 3
    /\ tick.requestId > tick.length
    /\ tick.pair[2] < tick.pair[1]
    /\ tick.pair[2] # (tick.pair[1] + 1) % tick.length

\* ---------------------------------------------------------------------
\* C33  least connections
\*
\* ChoiceSpec applies the two algorithms that look at the load of the
\* servers, least connections and power of two choices, to three servers
\* that hold requests in flight and in their queues; availableIds is what
\* lines 212-217 make of the state, and the requests selected for are the
\* ones with ids nextRequestId, nextRequestId + 1, ...

\* count requests, with ids from first on, as a server holds them
HeldRequests(first, count, status) ==
    [k \in 1..count |-> [NewRequest(first + k - 1, 0) EXCEPT !.status = status]]

\* server i of servers with inflight[i] requests in flight and queued[i] in
\* its queue
LoadedServers(servers, inflight, queued) ==
    [i \in 1..Len(servers) |->
        [servers[i] EXCEPT
            !.inflight = HeldRequests(4 * i - 3, inflight[i], "processing"),
            !.queue = HeldRequests(4 * i - 3 + inflight[i], queued[i], "server-queued")]]

ChoiceScenarios ==
    { [algorithmId |-> algorithm, workloadId |-> "steady",
       healthCheckIntervalMs |-> 150, recoveryDelayMs |-> 200,
       servers |-> << ServerConfig("srv-1", h1, 120, 1, 2, 1),
                      ServerConfig("srv-2", h2, 120, 1, 2, 1),
                      ServerConfig("srv-3", h3, 120, 1, 2, 1) >>,
       loadBalancers |-> << LbConfig("lb-1", TRUE, 40, 60, 2, NoId) >>] :
      algorithm \in {"least-connections", "p2c"},
      h1 \in {"UP", "DOWN"}, h2 \in {"UP", "DOWN"}, h3 \in {"UP", "SLOW"} }

ChoiceInit ==
    /\ \E scenario \in ChoiceScenarios,
          inflight \in [1..3 -> 0..2], queued \in [1..3 -> 0..1] :
           state = [buildStateFromScenario(scenario) EXCEPT
                       !.servers = LoadedServers(@, inflight, queued),
                       !.nextRequestId = 13]
    /\ tick = [op |-> "init", algorithm |-> getAlgorithm(state.algorithmId),
               availableIds |-> availableIds(state, 1),
               cursors |-> <<>>, picks |-> <<>>, reasons |-> <<>>]
    /\ envOps = 0
    /\ timer = 0

ChoiceNext == Select

ChoiceSpec == ChoiceInit /\ [][ChoiceNext]_vars

\* the candidates of the selection, in server-list order
Candidates == withAvailableServers(state.servers, tick.availableIds)

\* the last selection made
LastPick == tick.picks[Len(tick.picks)]

\* C33: least connections.  Among the available servers taken in
\* server-list order the chosen server has the minimum in-flight count,
\* among servers tied at the minimum the first in that order is chosen, and
\* the routing cursor is left unchanged.
C33_LeastConnections ==
    ( /\ tick.op = "select"
      /\ tick.algorithm = "least-connections"
      /\ Len(Candidates) > 0 )
        => /\ \E c \in 1..Len(Candidates) :
                  /\ Candidates[c].id = LastPick
                  /\ \A j \in 1..Len(Candidates) :
                         Len(Candidates[c].inflight) <= Len(Candidates[j].inflight)
                  /\ \A j \in 1..(c - 1) :
                         Len(Candidates[c].inflight) < Len(Candidates[j].inflight)
           /\ state.rrIndex = tick.cursors[Len(tick.cursors)]

\* two of three candidates tie at the minimum, the first of them is not the
\* first candidate, and the chosen one has the longer queue
C33_Witness ==
    /\ tick.op = "select"
    /\ tick.algorithm = "least-connections"
    /\ Len(Candidates) = 3
    /\ LastPick = Candidates[2].id
    /\ Len(Candidates[3].inflight) = Len(Candidates[2].inflight)
    /\ Len(Candidates[1].inflight) > Len(Candidates[2].inflight)
    /\ Len(Candidates[2].queue) > Len(Candidates[3].queue)

\* ---------------------------------------------------------------------
\* C32  power of two choices

\* the id of the request the last selection was made for
LastRequestId == state.nextRequestId - 1

\* the load the algorithm compares: in-flight + queued
CombinedLoad(server) == Len(server.inflight) + Len(server.queue)

\* the first sampled candidate: index r mod n
FirstSampled == Candidates[(LastRequestId % Len(Candidates)) + 1]

\* the second sampled candidate: index (r mod n + 1 + 7r mod (n - 1)) mod n,
\* or the first one where there is one candidate only
SecondSampled ==
    IF Len(Candidates) <= 1 THEN FirstSampled
    ELSE Candidates[(((LastRequestId % Len(Candidates)) + 1
                         + ((LastRequestId * 7) % (Len(Candidates) - 1)))
                             % Len(Candidates)) + 1]

\* C32: power of two choices.  For a request id r and the available
\* candidates in server-list order, the two candidate indices are a function
\* of r and the candidate count alone; the candidate with the lower combined
\* load (in-flight + queued) is chosen, and on equal load the first sampled
\* candidate (index r mod n) is chosen.
C32_PowerOfTwoChoices ==
    ( /\ tick.op = "select"
      /\ tick.algorithm = "p2c"
      /\ Len(Candidates) > 0 )
        => /\ LastPick \in {FirstSampled.id, SecondSampled.id}
           /\ CombinedLoad(Candidates[FindById(Candidates, LastPick)])
                  = Min({CombinedLoad(FirstSampled), CombinedLoad(SecondSampled)})
           /\ CombinedLoad(FirstSampled) = CombinedLoad(SecondSampled)
                  => LastPick = FirstSampled.id

\* the two sampled candidates are different servers with the same combined
\* load, made up differently, and the third candidate carries less
C32_Witness ==
    /\ tick.op = "select"
    /\ tick.algorithm = "p2c"
    /\ Len(Candidates) = 3
    /\ FirstSampled.id # SecondSampled.id
    /\ CombinedLoad(FirstSampled) = CombinedLoad(SecondSampled)
    /\ Len(FirstSampled.inflight) < Len(SecondSampled.inflight)
    /\ LastPick = FirstSampled.id
    /\ \E c \in 1..3 : CombinedLoad(Candidates[c]) < CombinedLoad(FirstSampled)

\* ---------------------------------------------------------------------
\* C34  recorded latency covers service time

\* C34: for every completed request, latencyMs (endTimeMs - arrivalTimeMs)
\* is at least the service time processingTimeMs assigned when it entered
\* in-flight; in particular no request is completed with latency 0 when its
\* service time is positive.  (processingTimeMs is held in 1/timeDen ms.)
C34_LatencyCoversService ==
    AfterStep =>
        \A k \in 1..Len(tick.completions) :
            tick.completions[k].latencyMs * tick.completions[k].timeDen
                >= tick.completions[k].processingTimeMs

\* ---------------------------------------------------------------------
\* C35  one wait sample per request per window

\* C35: over its whole life each request contributes at most one sample to
\* the LB-wait rolling window and at most one sample to the server-wait
\* rolling window; so neither window ever holds more samples than there
\* have been requests (ids 1 .. nextRequestId - 1).
C35_OneWaitSamplePerRequest ==
    /\ Len(state.recentLbWaits) <= state.nextRequestId - 1
    /\ Len(state.recentServerWaits) <= state.nextRequestId - 1

\* ---------------------------------------------------------------------
\* C36  global conservation of created requests

\* C36: after every step, the number of requests ever created
\* (nextRequestId minus its initial value, 1) equals totals.completed +
\* totals.failed + totals.droppedLb + the total number of requests in all
\* LB queues, all server queues and all in-flight lists.
C36_CreatedConservation ==
    AfterStep =>
        state.nextRequestId - 1 =
            state.totals.completed + state.totals.failed + state.totals.droppedLb
                + TotalLbQueued + TotalServerQueued + TotalInflight

\* requests have completed, have failed and have been dropped at the load
\* balancer, and others wait at a load balancer and are in flight
C36_Witness ==
    /\ AfterStep
    /\ state.totals.completed > 0
    /\ state.totals.failed > 0
    /\ state.totals.droppedLb > 0
    /\ TotalLbQueued > 0
    /\ TotalInflight > 0

\* ---------------------------------------------------------------------
\* C37  the circuit breaker is never armed by stepping

\* C37: no step changes any server's circuitBreakerUntilMs or totalFailed,
\* and totals.droppedServer stays at its initial value: a server chosen by
\* routing always has a free in-flight or queue slot at dispatch.
C37_BreakerNeverArmed ==
    [][ tick'.op = "stepSimulation" =>
            /\ state'.totals.droppedServer = state.totals.droppedServer
            /\ state'.totals.droppedServer = 0
            /\ \A i \in 1..Len(state.servers) :
                   /\ state'.servers[i].circuitBreakerUntilMs
                          = state.servers[i].circuitBreakerUntilMs
                   /\ state'.servers[i].totalFailed = state.servers[i].totalFailed
            /\ \A k \in 1..Len(tick'.drains) :
                   tick'.drains[k].serverId # NoId =>
                       tick'.drains[k].outcome \in {"processing", "server-queued"}
      ]_vars

\* a request was dispatched while a server that is up, and up in the
\* leader's snapshot, had neither a free slot nor room in its queue
C37_Witness ==
    /\ AfterStep
    /\ \E k \in 1..Len(tick.drains) :
           /\ tick.drains[k].outcome \in {"processing", "server-queued"}
           /\ \E v \in 1..Len(tick.drains[k].view) :
                  /\ ~tick.drains[k].view[v].open
                  /\ tick.drains[k].view[v].snapshot
                  /\ tick.drains[k].view[v].health # "DOWN"

\* ---------------------------------------------------------------------
\* C38  no leader

\* no load balancer is up
NoneUp(st) == \A i \in 1..Len(st.loadBalancers) : ~st.loadBalancers[i].isUp

\* the ids of the in-flight requests of server s that have at most dtMs left
DueOn(st, s, dtMs) ==
    { st.servers[s].inflight[k].id : k \in
          { j \in 1..Len(st.servers[s].inflight) :
                st.servers[s].inflight[j].remainingTimeMs
                    <= dtMs * TimeDen(st.servers[s]) } }

\* C38: in a step where no load balancer is up, every arrival of that step
\* fails with reason "load balancer unavailable", totals.failed increases by
\* exactly the number of arrivals, no LB queue and no server changes through
\* admission or routing, and requests already in flight on servers still
\* progress and complete.
C38_NoLeader ==
    [][ (tick'.op = "stepSimulation" /\ NoneUp(state)) =>
            /\ Len(tick'.admissions) = arrivalCount(beginStep(state, tick'.dtMs), tick'.dtMs)
            /\ \A k \in 1..Len(tick'.admissions) :
                   /\ tick'.admissions[k].outcome = "failed"
                   /\ tick'.admissions[k].reason = "load balancer unavailable"
            /\ state'.totals.failed = state.totals.failed + Len(tick'.admissions)
            /\ state'.totals.droppedLb = state.totals.droppedLb
            /\ tick'.drains = <<>>
            /\ \A i \in 1..Len(state.loadBalancers) :
                   state'.loadBalancers[i].queue = state.loadBalancers[i].queue
            /\ \A s \in 1..Len(state.servers) :
                   /\ Len(state'.servers[s].inflight) + Len(state'.servers[s].queue)
                          + Cardinality(DueOn(state, s, tick'.dtMs))
                          <= Len(state.servers[s].inflight) + Len(state.servers[s].queue)
                   /\ \A id \in DueOn(state, s, tick'.dtMs) :
                          \E k \in 1..Len(tick'.completions) :
                              /\ tick'.completions[k].id = id
                              /\ tick'.completions[k].serverId = state.servers[s].id
            /\ state'.totals.completed
                   >= state.totals.completed
                          + SumSeq([s \in 1..Len(state.servers) |->
                                       Cardinality(DueOn(state, s, tick'.dtMs))])
      ]_vars

\* a step without a leader in which arrivals have failed, a request that
\* was in flight has completed and a request still waits at a load balancer
C38_Witness ==
    /\ AfterStep
    /\ NoneUp(state)
    /\ tick.leader = Null
    /\ Len(tick.admissions) > 0
    /\ Len(tick.completions) > 0
    /\ TotalLbQueued > 0

\* ---------------------------------------------------------------------
\* C39  LB-queue liveness

\* the position of the request with this id in the queue (0: not in it)
PositionIn(queue, id) == FindById(queue, id)

\* the request that was at position p of the leader's queue is, after the
\* step, out of the queue or at a position before p
Advanced(before, after, p) ==
    LET now == PositionIn(after, before[p].id)
    IN now < p

\* C39: LB-queue liveness.  While the leader stays up with
\* floor(maxConnectionsPerSecond * dt / 1000) >= 1 and
\* maxConcurrentConnections >= 1, every request admitted to the leader's
\* queue is removed from it (dispatched or failed) within a number of steps
\* bounded by its position in the queue, regardless of later arrivals: each
\* such step takes the request out or moves it at least one position
\* forward, and a request admitted in the step ends it before the position
\* it was admitted at, or out of the queue.
C39_LbQueueProgress ==
    [][ tick'.op = "stepSimulation" =>
            \A l \in 1..Len(state.loadBalancers) :
                ( /\ state.loadBalancers[l].id = tick'.leader
                  /\ state.loadBalancers[l].isUp
                  /\ (state.loadBalancers[l].maxConnectionsPerSecond * tick'.dtMs)
                         \div 1000 >= 1
                  /\ state.loadBalancers[l].maxConcurrentConnections >= 1 )
                    => /\ \A p \in 1..Len(state.loadBalancers[l].queue) :
                              Advanced(state.loadBalancers[l].queue,
                                       state'.loadBalancers[l].queue, p)
                       /\ \A k \in 1..Len(tick'.admissions) :
                              tick'.admissions[k].outcome = "lb-queued" =>
                                  PositionIn(state'.loadBalancers[l].queue,
                                             tick'.admissions[k].id)
                                      <= tick'.admissions[k].queueLength
      ]_vars

\* the leader has drained requests in a step with arrivals and requests
\* still wait in its queue, one of them admitted in an earlier step
C39_Witness ==
    /\ AfterStep
    /\ Len(tick.admissions) > 0
    /\ \E l \in 1..Len(state.loadBalancers) :
           /\ state.loadBalancers[l].id = tick.leader
           /\ state.loadBalancers[l].isUp
           /\ tick.maxPerTick >= 1
           /\ Len(tick.drains) > 0
           /\ Len(state.loadBalancers[l].queue) > 0
           /\ state.loadBalancers[l].queue[1].id < tick.admissions[1].id

====
